---- MODULE Spec2Model ----
(***************************************************************************)
(* VoiceReel: job orchestration and API gateway layer.                     *)
(*                                                                         *)
(* Spec models the job lifecycle of the four deployments the server can be *)
(* constructed in: embedded store (server.py) or client-server store       *)
(* (server_postgres.py), each with the in-process worker thread or the     *)
(* distributed task executor (tasks.py / tasks_postgres.py); SpecLocal is  *)
(* the same with the in-process worker only.                               *)
(*                                                                         *)
(* SpecLimiter and SpecLimiterThreads model RateLimiter.is_allowed called  *)
(* by one caller at a time and by several threads; SpecAuth models         *)
(* APIKeyValidator.validate_request; SpecMiddleware models                 *)
(* SecurityMiddleware.process_request (security.py).                       *)
(*                                                                         *)
(* SpecRetention adds the retention sweeps (cleanup_old_files) to the job  *)
(* lifecycle; SpecStorage models S3StorageManager (s3_storage.py);         *)
(* SpecSynthesis models one synthesize_speech call of the speech engines;  *)
(* SpecExchange models do_GET and do_POST as http.server runs them;        *)
(* SpecValidation models InputValidator.validate_synthesis_script in       *)
(* POST /v1/synthesize.                                                    *)
(*                                                                         *)
(* SpecMetadata models update_speaker_metadata on both stores; SpecSweep   *)
(* is SpecLimiter with clock steps that make the periodic cleanup partial; *)
(* SpecDispatch is the job lifecycle with a failing broker and stop();     *)
(* SpecPool models PostgreSQLDB.get_connection; SpecWait adds              *)
(* wait_all_jobs to SpecLocal; SpecBlocked and SpecLockout are the limiter *)
(* and the validator with the rejected calls of each IP remembered.        *)
(***************************************************************************)
EXTENDS Integers, Sequences, FiniteSets, TLC

VARIABLES
    backend,        \* "sqlite" (server.py, tasks.py) or "postgres" (server_postgres.py, tasks_postgres.py)
    CELERY_AVAILABLE, \* module global: the celery import succeeded
    requested,      \* __init__ was asked for Celery (use_celery, or redis_url when it is None)
    use_celery,     \* self.use_celery, fixed by __init__
    speakers,       \* speakers table: id -> [exists, feature_path]
    jobs,           \* jobs table: id -> row
    usage,          \* usage table: number of rows inserted on behalf of each job
    job_queue,      \* self.job_queue (queue.Queue), local mode
    worker,         \* the _worker_loop thread: [pc, item]
    ctask,          \* the broker's task message and its execution, per job
    featureStore,   \* SpeakerManager storage: speaker ids with a saved feature file
    blobs,          \* blob storage: job id -> stored objects of that job
    next_speaker,   \* next serial speaker id
    next_job,       \* next fresh job id (uuid4)
    faulted,        \* history: an engine/storage call of the job raised or timed out
    ready,          \* history: jobs submitted when every referenced speaker had features
    executions,     \* history: how many times the processing of each job was started
    aged,           \* jobs whose completion and files are older than the sweep's age
    sweep,          \* history: outcome of the latest retention sweep
    storage,        \* the S3StorageManager, the bucket and the local directory
    synthesis,      \* one synthesize_speech call of the engine and its segment futures
    exchange,       \* the latest HTTP exchange: the request, the responses written, the exception
    submitted,      \* the script of the latest POST /v1/synthesize and the validator's verdict
    speaker_metadata, \* the metadata of one speaker row and the latest update_speaker_metadata call
    pool,           \* the ThreadedConnectionPool: connections checked out, and the threads inside get_connection
    wait_result,    \* history: the latest return of wait_all_jobs before its timeout, and the jobs unfinished then
    rejections,     \* history: ip -> time of its latest rejected call (limiter or lockout)
    response,       \* history: HTTP status of the latest POST (0: none yet)
    now,            \* time.time(), in seconds
    requests_by_ip, \* RateLimiter.requests_by_ip: ip -> deque of timestamps
    last_cleanup,   \* RateLimiter.last_cleanup
    threads,        \* request threads inside RateLimiter.is_allowed
    failed_attempts,\* APIKeyValidator.failed_attempts: ip -> list of timestamps
    auth_config,    \* APIKeyValidator: whether api_key and hmac_secret are configured
    ticks,          \* number of clock advances so far
    allowed_log,    \* history: ip -> times of all requests the limiter allowed
    failure_log,    \* history: ip -> times of all failed authentication attempts
    streak,         \* history: ip -> failed attempts since its last successful
                    \* authentication, counted up to max_attempts
    last            \* history: the latest call of the security layer and its result

jobVars == <<backend, CELERY_AVAILABLE, requested, use_celery, speakers, jobs, usage, job_queue, worker, ctask,
          featureStore, blobs, next_speaker, next_job, faulted, ready, executions, aged, sweep,
          storage, synthesis, exchange, submitted, speaker_metadata, pool, wait_result, rejections, response>>

securityVars == <<now, requests_by_ip, last_cleanup, threads, failed_attempts,
                  auth_config, ticks, allowed_log, failure_log, streak, last>>

vars == <<jobVars, securityVars>>

----------------------------------------------------------------------------
(* Bounds of the model *)

MaxJobs == 2
MaxSpeakers == 2
MaxRetries == 1
MaxTicks == 2          \* clock advances explored
MaxThreads == 2        \* request threads inside the rate limiter
requests_per_minute == 2   \* RateLimiter(requests_per_minute=...)
requests_per_hour == 3     \* RateLimiter(requests_per_hour=...)

JobIds == 1..MaxJobs
SpeakerIds == 1..MaxSpeakers
ThreadIds == 1..MaxThreads
ClientIPs == {"192.168.1.1", "192.168.1.2"}
LimiterSteps == {59, 60, 3600}    \* seconds the clock may advance between limiter calls
AuthSteps == {1, 299}             \* seconds the clock may advance between authentications
MiddlewareSteps == {60, 300}      \* seconds the clock may advance between requests
MiddlewareIPs == {"192.168.1.1"}  \* clients of the combined pipeline

\* APIKeyValidator.max_attempts as the lockout scenario configures it
\* (test_security.py; the constructor itself sets 5)
max_attempts == 2

\* "if duration < 30" of do_POST /v1/speakers (JSON mode)
MinReferenceSeconds == 30
Durations == {MinReferenceSeconds - 1, MinReferenceSeconds}
\* what _check_security gets from the middleware for a POST
SecurityVerdicts == {"ok", "RATE_LIMIT_EXCEEDED", "INVALID_API_KEY"}

\* literals of security.py
MinuteWindow == 60
HourWindow == 3600
cleanup_interval == 300
lockout_duration == 300

Null == "NULL"

----------------------------------------------------------------------------
(* Rows *)

NoJob ==
    [exists |-> FALSE, type |-> Null, status |-> Null, audio_url |-> Null,
     caption_path |-> Null, caption_format |-> Null, completed_at |-> Null,
     error |-> Null, speaker |-> 0, refs |-> {}]

NoSpeaker == [exists |-> FALSE, feature_path |-> Null]

NoTask == [st |-> "none", pc |-> "start", retries |-> 0, type |-> Null, speaker |-> 0, url |-> Null]

NoItem == [type |-> Null, job |-> 0, speaker |-> 0]

\* a task the executor has finished with (returned, or raised without retry)
DoneTask == [NoTask EXCEPT !.st = "done"]

IdleWorker == [pc |-> "idle", item |-> NoItem]

\* self.worker is None: start() created no thread
NoWorker == [pc |-> "none", item |-> NoItem]

Terminal == {"succeeded", "failed"}

\* PostgreSQLDatabase.create_job / the INSERT INTO jobs of server.py do_POST
create_job(type, audio, caption, fmt, spk, refs) ==
    [exists |-> TRUE, type |-> type, status |-> "pending", audio_url |-> audio,
     caption_path |-> caption, caption_format |-> fmt, completed_at |-> Null,
     error |-> Null, speaker |-> spk, refs |-> refs]

\* PostgreSQLDatabase.update_job: any subset of fields (Null = not given);
\* status "succeeded" also stamps completed_at. An UPDATE of an absent row
\* changes nothing.
update_job(row, status, audio, caption, fmt, err) ==
    IF ~row.exists THEN row
    ELSE [row EXCEPT
            !.status = IF status # Null THEN status ELSE @,
            !.completed_at = IF status = "succeeded" THEN "NOW" ELSE @,
            !.audio_url = IF audio # Null THEN audio ELSE @,
            !.caption_path = IF caption # Null THEN caption ELSE @,
            !.caption_format = IF fmt # Null THEN fmt ELSE @,
            !.error = IF err # Null THEN err ELSE @]

\* "UPDATE jobs SET status=? WHERE id=?" of server.py and tasks.py
sqlite_set_status(row, status) ==
    IF ~row.exists THEN row ELSE [row EXCEPT !.status = status]

\* "UPDATE jobs SET status=?, audio_url=?, caption_path=?, caption_format=?" of tasks.py
sqlite_set_result(row, audio, caption, fmt) ==
    IF ~row.exists THEN row
    ELSE [row EXCEPT !.status = "succeeded", !.audio_url = audio,
                     !.caption_path = caption, !.caption_format = fmt]

----------------------------------------------------------------------------
(* Construction *)

\* no storage manager has been constructed
NoStorage == [constructed |-> FALSE]

\* no synthesize_speech call has been made
NoSynthesis ==
    [pc |-> "idle", kind |-> "none", script |-> <<>>, parallel |-> FALSE, futures |-> <<>>,
     completed |-> <<>>, caption_data |-> <<>>, result |-> "none"]

\* no request has been handled
NoExchange ==
    [pc |-> "none", method |-> "none", route |-> "none", param |-> "none", persistence |-> "none",
     security |-> "none", found |-> FALSE, responses |-> <<>>, raised |-> FALSE]

\* no script has been submitted
NoSubmission ==
    [pc |-> "none", script |-> [type |-> "none", head |-> <<>>, filler |-> 0],
     accepted |-> FALSE, error |-> "none"]

\* keys of the speakers.metadata object
MetadataKeys == {"feature_path", "reference_text", "note"}

\* the metadata of a fresh speaker row ({}), no update made yet
NoMetadata ==
    [pc |-> "none", stored |-> [k \in MetadataKeys |-> "absent"],
     before |-> [k \in MetadataKeys |-> "absent"],
     partial |-> [k \in MetadataKeys |-> "absent"], error |-> "none"]

\* the pool after construction: nothing checked out, no thread in an operation
NoPool ==
    [used |-> 0,
     threads |-> [th \in ThreadIds |-> [pc |-> "idle", conn |-> FALSE, outcome |-> "none"]]]

\* wait_all_jobs has not returned yet
NoWait == [returned |-> FALSE, unfinished |-> {}]

\* no call has been rejected yet
NoRejections == [ip \in ClientIPs |-> {}]

\* the use_celery argument of __init__
UseCeleryArgs == {"None", "True", "False"}

\* __init__: "Determine whether to use Celery"
select_mode(arg, redis_url, available) ==
    IF arg = "None" THEN available /\ redis_url ELSE (arg = "True") /\ available

InitJobs ==
    /\ backend \in {"sqlite", "postgres"}
    /\ CELERY_AVAILABLE \in BOOLEAN
    /\ \E arg \in UseCeleryArgs, redis_url \in BOOLEAN :
          /\ requested = IF arg = "None" THEN redis_url ELSE arg = "True"
          /\ use_celery = select_mode(arg, redis_url, CELERY_AVAILABLE)
    /\ speakers = [s \in SpeakerIds |-> NoSpeaker]
    /\ jobs = [j \in JobIds |-> NoJob]
    /\ usage = [j \in JobIds |-> 0]
    /\ job_queue = <<>>
    /\ worker = IF use_celery THEN NoWorker ELSE IdleWorker
    /\ ctask = [j \in JobIds |-> NoTask]
    /\ featureStore = {}
    /\ blobs = [j \in JobIds |-> {}]
    /\ next_speaker = 1
    /\ next_job = 1
    /\ faulted = [j \in JobIds |-> FALSE]
    /\ ready = {}
    /\ executions = [j \in JobIds |-> 0]
    /\ aged = {}
    /\ sweep = "none"
    /\ storage = NoStorage
    /\ synthesis = NoSynthesis
    /\ exchange = NoExchange
    /\ submitted = NoSubmission
    /\ speaker_metadata = NoMetadata
    /\ pool = NoPool
    /\ wait_result = NoWait
    /\ rejections = NoRejections
    /\ response = 0

NoCall ==
    [op |-> "none", ip |-> Null, key |-> Null, ok |-> TRUE,
     error |-> Null, limit_type |-> Null, at |-> 0, stage |-> Null]

IdleThread == [pc |-> "idle", ip |-> Null, now |-> 0, orphan |-> FALSE]

EmptyTable == [ip \in {} |-> <<>>]

\* RateLimiter.__init__ and APIKeyValidator.__init__ at time 0
InitSecurity ==
    /\ now = 0
    /\ requests_by_ip = EmptyTable
    /\ last_cleanup = 0
    /\ threads = [t \in ThreadIds |-> IdleThread]
    /\ failed_attempts = EmptyTable
    /\ auth_config = [api_key |-> FALSE, hmac_secret |-> FALSE]
    /\ ticks = 0
    /\ allowed_log = [ip \in ClientIPs |-> <<>>]
    /\ failure_log = [ip \in ClientIPs |-> <<>>]
    /\ streak = [ip \in ClientIPs |-> 0]
    /\ last = NoCall

Init == InitJobs /\ InitSecurity

----------------------------------------------------------------------------
(* HTTP handlers.  HTTPServer serves one request at a time, so a handler   *)
(* is one step relative to other handlers; the worker and the task        *)
(* executor run beside it.                                                 *)

\* a dispatch that also puts the item on the local queue in distributed mode
dispatch_on_both_paths(j, type, spk) ==
    /\ job_queue' = Append(job_queue, [type |-> type, job |-> j, speaker |-> spk])
    /\ IF use_celery
       THEN ctask' = [ctask EXCEPT ![j] = [NoTask EXCEPT !.st = "queued", !.type = type, !.speaker = spk]]
       ELSE UNCHANGED ctask

\* the dispatch at the end of do_POST: celery .delay(...) or job_queue.put(...)
dispatch(j, type, spk) ==
    IF use_celery
    THEN /\ ctask' = [ctask EXCEPT ![j] = [NoTask EXCEPT !.st = "queued", !.type = type, !.speaker = spk]]
         /\ UNCHANGED job_queue
    ELSE /\ job_queue' = Append(job_queue, [type |-> type, job |-> j, speaker |-> spk])
         /\ UNCHANGED ctask

\* a handler that checks the reference duration after its INSERTs
reaches_insert_before_duration(status) == status \in {200, 202, 422}

\* do_POST passes all its early returns and reaches the INSERTs exactly when
\* it answers 200 or 202
reaches_insert(status) == status \in {200, 202}

\* the status do_POST answers with: _check_security (429 or 401), the input
\* validators (400), the reference duration of /v1/speakers (422), else
\* accepted (202; server.py answers 200 to /v1/synthesize)
post_status(path, security, valid, duration) ==
    IF security = "RATE_LIMIT_EXCEEDED" THEN 429
    ELSE IF security # "ok" THEN 401
    ELSE IF ~valid THEN 400
    ELSE IF path = "/v1/speakers" /\ duration < MinReferenceSeconds THEN 422
    ELSE IF path = "/v1/synthesize" /\ backend = "sqlite" THEN 200
    ELSE 202

\* POST /v1/speakers (JSON mode).  Accepted (202): speaker row and pending
\* job row, then dispatch.  Rejected: the handler returns before its INSERTs.
do_POST_speakers ==
    \E security \in SecurityVerdicts, valid \in BOOLEAN, duration \in Durations :
        LET status == post_status("/v1/speakers", security, valid, duration)
        IN  /\ response' = status
            /\ IF reaches_insert(status)
               THEN /\ next_job <= MaxJobs
                    /\ next_speaker <= MaxSpeakers
                    /\ speakers' = [speakers EXCEPT ![next_speaker] =
                                        [exists |-> TRUE, feature_path |-> Null]]
                    /\ jobs' = [jobs EXCEPT ![next_job] =
                                    create_job("register_speaker", Null, Null, Null,
                                               next_speaker, {})]
                    /\ dispatch(next_job, "register_speaker", next_speaker)
                    /\ next_speaker' = next_speaker + 1
                    /\ next_job' = next_job + 1
               ELSE UNCHANGED <<speakers, jobs, job_queue, ctask, next_speaker, next_job>>
            /\ UNCHANGED <<securityVars, rejections, wait_result, pool, speaker_metadata, submitted, exchange, synthesis, storage, aged, sweep, executions, backend, CELERY_AVAILABLE, requested, use_celery, usage, worker, featureStore,
                           blobs, faulted, ready>>

\* POST /v1/synthesize, accepted.  server.py writes the audio and caption
\* files, stores their paths in the pending row and inserts a usage row
\* in the handler; server_postgres.py only creates the pending job.
synthesize_request(security, valid) ==
        LET status == post_status("/v1/synthesize", security, valid, MinReferenceSeconds)
        IN  /\ response' = status
            /\ IF reaches_insert(status)
               THEN /\ next_job <= MaxJobs
                    /\ \E refs \in (SUBSET SpeakerIds) \ {{}} :
                        /\ IF backend = "sqlite"
                           THEN /\ jobs' = [jobs EXCEPT ![next_job] =
                                               create_job("synthesize", "path", "path", "fmt", 0, refs)]
                                /\ blobs' = [blobs EXCEPT ![next_job] = {"audio", "caption"}]
                                /\ usage' = [usage EXCEPT ![next_job] = @ + 1]
                           ELSE /\ jobs' = [jobs EXCEPT ![next_job] =
                                               create_job("synthesize", Null, Null, Null, 0, refs)]
                                /\ UNCHANGED <<blobs, usage>>
                        /\ ready' = IF refs \subseteq featureStore
                                    THEN ready \cup {next_job} ELSE ready
                    /\ dispatch(next_job, "synthesize", 0)
                    /\ next_job' = next_job + 1
               ELSE UNCHANGED <<jobs, blobs, usage, ready, job_queue, ctask, next_job>>
            /\ UNCHANGED <<securityVars, rejections, wait_result, pool, speaker_metadata, exchange, synthesis, storage, aged, sweep, executions, backend, CELERY_AVAILABLE, requested, use_celery, speakers, worker, featureStore,
                           next_speaker, faulted>>

do_POST_synthesize ==
    /\ \E security \in SecurityVerdicts, valid \in BOOLEAN : synthesize_request(security, valid)
    /\ UNCHANGED submitted

\* The file removal of do_DELETE for one stored reference.  server.py calls
\* os.remove(reference), which removes a plain path and raises the ignored
\* FileNotFoundError for an s3:// or file:// reference; server_postgres.py
\* calls delete_file(key) for s3:// and os.remove only if
\* os.path.exists(reference), which is false for file:// and dummy://.
delete_removes(ref) ==
    IF backend = "sqlite" THEN ref = "path" ELSE ref = "s3"

\* DELETE /v1/jobs/{id} on an existing row (204): remove the files, then the
\* row; PostgreSQLDatabase.delete_job removes the job's usage rows first.
do_DELETE(j) ==
    /\ jobs[j].exists
    /\ blobs' = [blobs EXCEPT ![j] =
                    @ \ ({"audio" : x \in {r \in {jobs[j].audio_url} : delete_removes(r)}}
                         \cup {"caption" : x \in {r \in {jobs[j].caption_path} : delete_removes(r)}})]
    /\ jobs' = [jobs EXCEPT ![j] = NoJob]
    /\ usage' = IF backend = "postgres" THEN [usage EXCEPT ![j] = 0] ELSE usage
    /\ UNCHANGED <<securityVars, rejections, wait_result, pool, speaker_metadata, submitted, exchange, synthesis, storage, aged, sweep, executions, response, backend, CELERY_AVAILABLE, requested, use_celery, speakers, job_queue, worker, ctask,
                   featureStore, next_speaker, next_job, faulted, ready>>

----------------------------------------------------------------------------
(* Local mode: the _worker_loop thread *)

\* a queue that hands out its newest item
queue_get_lifo(q) == [item |-> q[Len(q)], rest |-> SubSeq(q, 1, Len(q) - 1)]

\* queue.Queue.get: the oldest item, and the queue without it
queue_get(q) == [item |-> Head(q), rest |-> Tail(q)]

\* item = self.job_queue.get(timeout=0.1)
worker_get ==
    /\ ~use_celery
    /\ worker.pc = "idle"
    /\ job_queue # <<>>
    /\ worker' = [pc |-> "got", item |-> queue_get(job_queue).item]
    /\ job_queue' = queue_get(job_queue).rest
    /\ executions' = [executions EXCEPT ![queue_get(job_queue).item.job] = @ + 1]
    /\ UNCHANGED <<securityVars, rejections, wait_result, pool, speaker_metadata, submitted, exchange, synthesis, storage, aged, sweep, response, backend, CELERY_AVAILABLE, requested, use_celery, speakers, jobs, usage, ctask, featureStore,
                   blobs, next_speaker, next_job, faulted, ready>>

\* server.py _worker_loop body: UPDATE jobs SET status='succeeded'; task_done()
worker_loop_sqlite ==
    /\ backend = "sqlite"
    /\ worker.pc = "got"
    /\ jobs' = [jobs EXCEPT ![worker.item.job] = sqlite_set_status(@, "succeeded")]
    /\ worker' = IdleWorker
    /\ UNCHANGED <<securityVars, rejections, wait_result, pool, speaker_metadata, submitted, exchange, synthesis, storage, aged, sweep, executions, response, backend, CELERY_AVAILABLE, requested, use_celery, speakers, usage, job_queue, ctask, featureStore,
                   blobs, next_speaker, next_job, faulted, ready>>

\* server_postgres.py _worker_loop body, first call: update_job(status="succeeded", ...)
worker_loop_postgres ==
    /\ backend = "postgres"
    /\ worker.pc = "got"
    /\ jobs' = [jobs EXCEPT ![worker.item.job] =
                  IF worker.item.type = "synthesize"
                  THEN update_job(@, "succeeded", "dummy", "dummy", "fmt", Null)
                  ELSE update_job(@, "succeeded", Null, Null, Null, Null)]
    /\ worker' = [worker EXCEPT !.pc = "usage"]
    /\ UNCHANGED <<securityVars, rejections, wait_result, pool, speaker_metadata, submitted, exchange, synthesis, storage, aged, sweep, executions, response, backend, CELERY_AVAILABLE, requested, use_celery, speakers, usage, job_queue, ctask, featureStore,
                   blobs, next_speaker, next_job, faulted, ready>>

\* server_postgres.py _worker_loop body, second call: record_usage(..., job_id=job_id);
\* usage.job_id REFERENCES jobs(id), so the insert raises when the row is gone,
\* and nothing in the loop catches it: the thread ends.
worker_record_usage ==
    /\ backend = "postgres"
    /\ worker.pc = "usage"
    /\ IF jobs[worker.item.job].exists
       THEN /\ usage' = [usage EXCEPT ![worker.item.job] = @ + 1]
            /\ worker' = IdleWorker
       ELSE /\ worker' = [worker EXCEPT !.pc = "dead"]
            /\ UNCHANGED usage
    /\ UNCHANGED <<securityVars, rejections, wait_result, pool, speaker_metadata, submitted, exchange, synthesis, storage, aged, sweep, executions, response, backend, CELERY_AVAILABLE, requested, use_celery, speakers, jobs, job_queue, ctask, featureStore,
                   blobs, next_speaker, next_job, faulted, ready>>

----------------------------------------------------------------------------
(* Distributed mode: the register_speaker and synthesize tasks.  Any       *)
(* number of worker processes run tasks of different jobs side by side;    *)
(* each database commit of a task is one step.                             *)

Running(j, pc) == ctask[j].st = "running" /\ ctask[j].pc = pc

goto(j, pc) == ctask' = [ctask EXCEPT ![j].pc = pc]

\* a worker process takes the task message from the broker
task_begin(j) ==
    /\ use_celery
    /\ ctask[j].st = "queued"
    /\ ctask' = [ctask EXCEPT ![j].st = "running", ![j].pc = "start"]
    /\ executions' = [executions EXCEPT ![j] = @ + 1]
    /\ UNCHANGED <<securityVars, rejections, wait_result, pool, speaker_metadata, submitted, exchange, synthesis, storage, aged, sweep, response, backend, CELERY_AVAILABLE, requested, use_celery, speakers, jobs, usage, job_queue, worker,
                   featureStore, blobs, next_speaker, next_job, faulted, ready>>

\* first statement of both tasks: status "processing", committed
task_processing(j) ==
    /\ Running(j, "start")
    /\ jobs' = [jobs EXCEPT ![j] =
                  IF backend = "postgres"
                  THEN update_job(@, "processing", Null, Null, Null, Null)
                  ELSE sqlite_set_status(@, "processing")]
    /\ goto(j, "work")
    /\ UNCHANGED <<securityVars, rejections, wait_result, pool, speaker_metadata, submitted, exchange, synthesis, storage, aged, sweep, executions, response, backend, CELERY_AVAILABLE, requested, use_celery, speakers, usage, job_queue, worker,
                   featureStore, blobs, next_speaker, next_job, faulted, ready>>

\* register_speaker: os.path.exists(audio_path), extract_speaker_features,
\* save_speaker_features.  The engine or the file access may raise.
register_extract(j) ==
    /\ Running(j, "work")
    /\ ctask[j].type = "register_speaker"
    /\ \/ /\ featureStore' = featureStore \cup {ctask[j].speaker}
          /\ goto(j, "meta")
          /\ UNCHANGED faulted
       \/ /\ faulted' = [faulted EXCEPT ![j] = TRUE]
          /\ goto(j, "except")
          /\ UNCHANGED featureStore
    /\ UNCHANGED <<securityVars, rejections, wait_result, pool, speaker_metadata, submitted, exchange, synthesis, storage, aged, sweep, executions, response, backend, CELERY_AVAILABLE, requested, use_celery, speakers, jobs, usage, job_queue, worker,
                   blobs, next_speaker, next_job, ready>>

\* register_speaker, tasks_postgres.py: update_speaker_metadata(speaker_id,
\* {"feature_path": ...}).  tasks.py: "UPDATE speakers SET metadata=?" on a
\* table that db.py and server.py create without a metadata column, which
\* raises sqlite3.OperationalError.
register_metadata(j) ==
    /\ Running(j, "meta")
    /\ IF backend = "postgres"
       THEN /\ speakers' = [speakers EXCEPT ![ctask[j].speaker].feature_path =
                               IF speakers[ctask[j].speaker].exists THEN "feature_path" ELSE @]
            /\ goto(j, "succeed")
       ELSE /\ goto(j, "except")
            /\ UNCHANGED speakers
    /\ UNCHANGED <<securityVars, rejections, wait_result, pool, speaker_metadata, submitted, exchange, synthesis, storage, aged, sweep, executions, response, backend, CELERY_AVAILABLE, requested, use_celery, jobs, usage, job_queue, worker,
                   featureStore, blobs, next_speaker, next_job, faulted, ready>>

\* register_speaker, tasks_postgres.py: update_job(status="succeeded", metadata=...)
register_succeed(j) ==
    /\ Running(j, "succeed")
    /\ ctask[j].type = "register_speaker"
    /\ jobs' = [jobs EXCEPT ![j] = update_job(@, "succeeded", Null, Null, Null, Null)]
    /\ goto(j, "usage")
    /\ UNCHANGED <<securityVars, rejections, wait_result, pool, speaker_metadata, submitted, exchange, synthesis, storage, aged, sweep, executions, response, backend, CELERY_AVAILABLE, requested, use_celery, speakers, usage, job_queue, worker,
                   featureStore, blobs, next_speaker, next_job, faulted, ready>>

\* tasks_postgres.py: record_usage(..., job_id=job_id), the last call of both
\* tasks.  The insert raises when the job row is gone (foreign key).
task_record_usage(j) ==
    /\ Running(j, "usage")
    /\ IF jobs[j].exists
       THEN /\ usage' = [usage EXCEPT ![j] = @ + 1]
            /\ ctask' = [ctask EXCEPT ![j] = DoneTask]
       ELSE /\ goto(j, "except")
            /\ UNCHANGED usage
    /\ UNCHANGED <<securityVars, rejections, wait_result, pool, speaker_metadata, submitted, exchange, synthesis, storage, aged, sweep, executions, response, backend, CELERY_AVAILABLE, requested, use_celery, speakers, jobs, job_queue, worker,
                   featureStore, blobs, next_speaker, next_job, faulted, ready>>

\* synthesize: resolve every unique speaker of the script.  tasks_postgres.py
\* needs the speaker row and the feature file, tasks.py the feature file;
\* anything missing raises ValueError.
synthesize_load(j) ==
    /\ Running(j, "work")
    /\ ctask[j].type = "synthesize"
    /\ IF \A s \in jobs[j].refs :
             /\ s \in featureStore
             /\ backend = "postgres" => speakers[s].exists
       THEN goto(j, "synth")
       ELSE goto(j, "except")
    /\ UNCHANGED <<securityVars, rejections, wait_result, pool, speaker_metadata, submitted, exchange, synthesis, storage, aged, sweep, executions, response, backend, CELERY_AVAILABLE, requested, use_celery, speakers, jobs, usage, job_queue, worker,
                   featureStore, blobs, next_speaker, next_job, faulted, ready>>

\* synthesize: engine call, save_audio, export_captions, the two upload_file
\* calls.  The uploads return an s3:// or a file:// reference; the engine
\* or the storage may raise.
synthesize_upload(j) ==
    /\ Running(j, "synth")
    /\ \/ /\ blobs' = [blobs EXCEPT ![j] = {"audio", "caption"}]
          /\ \E kind \in {"s3", "file"} :
                ctask' = [ctask EXCEPT ![j].pc = "commit", ![j].url = kind]
          /\ UNCHANGED faulted
       \/ /\ faulted' = [faulted EXCEPT ![j] = TRUE]
          /\ goto(j, "except")
          /\ UNCHANGED blobs
    /\ UNCHANGED <<securityVars, rejections, wait_result, pool, speaker_metadata, submitted, exchange, synthesis, storage, aged, sweep, executions, response, backend, CELERY_AVAILABLE, requested, use_celery, speakers, jobs, usage, job_queue, worker,
                   featureStore, next_speaker, next_job, ready>>

\* synthesize, tasks_postgres.py: update_job(status="succeeded", audio_url,
\* caption_path, caption_format, metadata), then record_usage.
\* tasks.py: UPDATE jobs ... and INSERT INTO usage in one commit, then the
\* return statement reads audio_path and caption_path, names the function
\* never binds: NameError inside the try block.
synthesize_commit(j) ==
    /\ Running(j, "commit")
    /\ IF backend = "postgres"
       THEN /\ jobs' = [jobs EXCEPT ![j] =
                          update_job(@, "succeeded", ctask[j].url, ctask[j].url, "fmt", Null)]
            /\ goto(j, "usage")
            /\ UNCHANGED usage
       ELSE /\ jobs' = [jobs EXCEPT ![j] =
                          sqlite_set_result(@, ctask[j].url, ctask[j].url, "fmt")]
            /\ usage' = [usage EXCEPT ![j] = @ + 1]
            /\ goto(j, "except")
    /\ UNCHANGED <<securityVars, rejections, wait_result, pool, speaker_metadata, submitted, exchange, synthesis, storage, aged, sweep, executions, response, backend, CELERY_AVAILABLE, requested, use_celery, speakers, job_queue, worker,
                   featureStore, blobs, next_speaker, next_job, faulted, ready>>

\* an executor that re-queues a failing task every time
may_retry_forever(t) == TRUE

\* self.retry: the executor queues the task again unless it has used up its
\* retries
may_retry(t) == t.retries < MaxRetries

\* except Exception: status "failed" (with the error), then self.retry(exc=e,
\* countdown=60): the task is queued again until the retry limit is reached.
task_except(j) ==
    /\ Running(j, "except")
    /\ jobs' = [jobs EXCEPT ![j] =
                  IF backend = "postgres"
                  THEN update_job(@, "failed", Null, Null, Null, "error")
                  ELSE sqlite_set_status(@, "failed")]
    /\ ctask' = [ctask EXCEPT ![j] =
                   IF may_retry(@)
                   THEN [@ EXCEPT !.st = "queued", !.pc = "start", !.retries = @ + 1]
                   ELSE DoneTask]
    /\ UNCHANGED <<securityVars, rejections, wait_result, pool, speaker_metadata, submitted, exchange, synthesis, storage, aged, sweep, executions, response, backend, CELERY_AVAILABLE, requested, use_celery, speakers, usage, job_queue, worker,
                   featureStore, blobs, next_speaker, next_job, faulted, ready>>

\* except SoftTimeLimitExceeded: the executor raises it inside the try block
\* of a running task; status "failed" (tasks_postgres.py: error "timeout"),
\* re-raised, no retry.
task_timeout(j) ==
    /\ ctask[j].st = "running"
    /\ ctask[j].pc \in {"work", "meta", "succeed", "synth", "commit", "usage"}
    /\ jobs' = [jobs EXCEPT ![j] =
                  IF backend = "postgres"
                  THEN update_job(@, "failed", Null, Null, Null, "timeout")
                  ELSE sqlite_set_status(@, "failed")]
    /\ ctask' = [ctask EXCEPT ![j] = DoneTask]
    /\ faulted' = [faulted EXCEPT ![j] = TRUE]
    /\ UNCHANGED <<securityVars, rejections, wait_result, pool, speaker_metadata, submitted, exchange, synthesis, storage, aged, sweep, executions, response, backend, CELERY_AVAILABLE, requested, use_celery, speakers, usage, job_queue, worker,
                   featureStore, blobs, next_speaker, next_job, ready>>

----------------------------------------------------------------------------
Next ==
    \/ do_POST_speakers
    \/ do_POST_synthesize
    \/ \E j \in JobIds : do_DELETE(j)
    \/ worker_get
    \/ worker_loop_sqlite
    \/ worker_loop_postgres
    \/ worker_record_usage
    \/ \E j \in JobIds : task_begin(j)
    \/ \E j \in JobIds : task_processing(j)
    \/ \E j \in JobIds : register_extract(j)
    \/ \E j \in JobIds : register_metadata(j)
    \/ \E j \in JobIds : register_succeed(j)
    \/ \E j \in JobIds : task_record_usage(j)
    \/ \E j \in JobIds : synthesize_load(j)
    \/ \E j \in JobIds : synthesize_upload(j)
    \/ \E j \in JobIds : synthesize_commit(j)
    \/ \E j \in JobIds : task_except(j)
    \/ \E j \in JobIds : task_timeout(j)

Spec == Init /\ [][Next]_vars

----------------------------------------------------------------------------
(* The retention sweep: VoiceReelServer.cleanup_old_files and the          *)
(* cleanup_old_files task of tasks.py on the embedded store, the           *)
(* cleanup_old_files task of tasks_postgres.py on the client-server store. *)

\* time passes: a succeeded job becomes older than the age the sweep is
\* called with (its files were written before it succeeded)
grow_old(j) ==
    /\ jobs[j].exists
    /\ jobs[j].status = "succeeded"
    /\ j \notin aged
    /\ aged' = aged \cup {j}
    /\ UNCHANGED <<securityVars, rejections, wait_result, pool, speaker_metadata, submitted, exchange, synthesis, storage, sweep, executions, response, backend, CELERY_AVAILABLE,
                   requested, use_celery, speakers, jobs, usage, job_queue, worker, ctask,
                   featureStore, blobs, next_speaker, next_job, faulted, ready>>

\* the rows of "SELECT ... FROM jobs WHERE status='succeeded'"
succeeded_jobs == {j \in JobIds : jobs[j].exists /\ jobs[j].status = "succeeded"}

\* "p and os.path.exists(p)": the column holds a plain path (not NULL, not an
\* s3:// or file:// reference) and the file is there
path_exists(j, ref, blob) == ref = "path" /\ blob \in blobs[j]

\* the files of job j the embedded-store sweep finds on disk
files_on_disk(j) ==
    {b \in {"audio", "caption"} :
        path_exists(j, IF b = "audio" THEN jobs[j].audio_url ELSE jobs[j].caption_path, b)}

\* "keep = True": some file of the job is on disk and not older than the cutoff
keep(j) == files_on_disk(j) # {} /\ j \notin aged

\* cleanup_old_files of server.py and tasks.py: files older than the cutoff
\* are removed; the row of every succeeded job without a kept file is deleted
cleanup_old_files_sqlite ==
    /\ backend = "sqlite"
    /\ blobs' = [j \in JobIds |->
                    IF j \in succeeded_jobs /\ j \in aged
                    THEN blobs[j] \ files_on_disk(j) ELSE blobs[j]]
    /\ jobs' = [j \in JobIds |->
                   IF j \in succeeded_jobs /\ ~keep(j) THEN NoJob ELSE jobs[j]]
    /\ sweep' = "done"
    /\ UNCHANGED usage

\* PostgreSQLDatabase.cleanup_old_jobs: the rows its DELETE statement selects
old_succeeded_jobs == {j \in succeeded_jobs : j \in aged}

\* S3StorageManager.cleanup_expired_files in the process of the cleanup
\* task: with the object store available it deletes the expired objects of
\* the bucket, otherwise the expired files of the local directory
expired_removed(j, s3_available) ==
    IF j \in aged /\ jobs[j].audio_url = (IF s3_available THEN "s3" ELSE "file")
    THEN {} ELSE blobs[j]

\* cleanup_old_files of tasks_postgres.py: cleanup_old_jobs, then
\* cleanup_expired_files.  usage.job_id REFERENCES jobs(id) without ON
\* DELETE, so the DELETE statement fails as a whole when a selected job has
\* a usage row, and the exception ends the task.
cleanup_old_files_postgres ==
    /\ backend = "postgres"
    /\ IF \E j \in old_succeeded_jobs : usage[j] > 0
       THEN /\ sweep' = "ForeignKeyViolation"
            /\ UNCHANGED <<jobs, blobs>>
       ELSE /\ sweep' = "done"
            /\ jobs' = [j \in JobIds |-> IF j \in old_succeeded_jobs THEN NoJob ELSE jobs[j]]
            /\ \E s3_available \in BOOLEAN :
                  blobs' = [j \in JobIds |-> expired_removed(j, s3_available)]
    /\ UNCHANGED usage

\* one run of the periodic cleanup
cleanup_old_files ==
    /\ cleanup_old_files_sqlite \/ cleanup_old_files_postgres
    /\ UNCHANGED <<securityVars, rejections, wait_result, pool, speaker_metadata, submitted, exchange, synthesis, storage, aged, executions, response, backend, CELERY_AVAILABLE,
                   requested, use_celery, speakers, job_queue, worker, ctask,
                   featureStore, next_speaker, next_job, faulted, ready>>

\* the handlers, the worker and the tasks beside the sweep; soft time limits
\* are left out (they only produce failed jobs, which no sweep selects)
NextRetention ==
    \/ do_POST_speakers
    \/ do_POST_synthesize
    \/ \E j \in JobIds : do_DELETE(j)
    \/ worker_get
    \/ worker_loop_sqlite
    \/ worker_loop_postgres
    \/ worker_record_usage
    \/ \E j \in JobIds : task_begin(j)
    \/ \E j \in JobIds : task_processing(j)
    \/ \E j \in JobIds : register_extract(j)
    \/ \E j \in JobIds : register_metadata(j)
    \/ \E j \in JobIds : register_succeed(j)
    \/ \E j \in JobIds : task_record_usage(j)
    \/ \E j \in JobIds : synthesize_load(j)
    \/ \E j \in JobIds : synthesize_upload(j)
    \/ \E j \in JobIds : synthesize_commit(j)
    \/ \E j \in JobIds : task_except(j)
    \/ \E j \in JobIds : grow_old(j)
    \/ cleanup_old_files

SpecRetention == Init /\ [][NextRetention]_vars

----------------------------------------------------------------------------
(* RateLimiter (security.py)                                               *)

\* time.time() advances between calls
Tick(d) ==
    /\ ticks < MaxTicks
    /\ now' = now + d
    /\ ticks' = ticks + 1
    /\ UNCHANGED <<jobVars, requests_by_ip, last_cleanup, threads, failed_attempts,
                   auth_config, allowed_log, failure_log, streak, last>>

\* a count that forgets a request one second before the window closes
minute_count_short(q, t) ==
    Cardinality({i \in 1..Len(q) : q[i] > t - MinuteWindow + 1})

\* sum(1 for req_time in ip_requests if req_time > minute_ago)
minute_count(q, t) ==
    Cardinality({i \in 1..Len(q) : q[i] > t - MinuteWindow})

\* sum(1 for req_time in ip_requests if req_time > hour_ago)
hour_count(q, t) ==
    Cardinality({i \in 1..Len(q) : q[i] > t - HourWindow})

\* a loop that also drops what is up to one cleanup interval newer
RECURSIVE popleft_eager(_, _)
popleft_eager(q, hour_ago) ==
    IF q # <<>> /\ Head(q) <= hour_ago + cleanup_interval
    THEN popleft_eager(Tail(q), hour_ago) ELSE q

\* while q and q[0] <= hour_ago: q.popleft()
RECURSIVE popleft_old(_, _)
popleft_old(q, hour_ago) ==
    IF q # <<>> /\ Head(q) <= hour_ago THEN popleft_old(Tail(q), hour_ago) ELSE q

\* RateLimiter._cleanup_old_entries: prune every deque, drop the empty ones
cleanup_old_entries(tbl, t) ==
    LET kept == {ip \in DOMAIN tbl : popleft_old(tbl[ip], t - HourWindow) # <<>>}
    IN  [ip \in kept |-> popleft_old(tbl[ip], t - HourWindow)]

\* the periodic cleanup at the head of is_allowed
cleanup_due(t) == t - last_cleanup > cleanup_interval

after_cleanup(t) ==
    IF cleanup_due(t) THEN cleanup_old_entries(requests_by_ip, t) ELSE requests_by_ip

\* self.requests_by_ip[client_ip] on a defaultdict(deque): a missing key is created
touch(tbl, ip) ==
    [i \in DOMAIN tbl \cup {ip} |-> IF i \in DOMAIN tbl THEN tbl[i] ELSE <<>>]

\* ip_requests.append(now) followed by the popleft loop
record(q, t) == popleft_old(Append(q, t), t - HourWindow)

rejected(ip, t, limit_type) ==
    [NoCall EXCEPT !.op = "is_allowed", !.ip = ip, !.ok = FALSE,
                   !.error = "RATE_LIMIT_EXCEEDED", !.limit_type = limit_type, !.at = t]

allowed(ip, t) ==
    [NoCall EXCEPT !.op = "is_allowed", !.ip = ip, !.ok = TRUE, !.at = t]

\* the limit that rejects a request of ip at time t (Null: none)
limit_hit(ip, t) ==
    LET q == touch(after_cleanup(t), ip)[ip]
    IN  IF minute_count(q, t) >= requests_per_minute THEN "per_minute"
        ELSE IF hour_count(q, t) >= requests_per_hour THEN "per_hour"
        ELSE Null

\* what is_allowed returns
is_allowed_result(ip, t) ==
    IF limit_hit(ip, t) # Null THEN rejected(ip, t, limit_hit(ip, t)) ELSE allowed(ip, t)

\* a limiter whose rejecting branches also append the time of the call
after_rejection_recorded(tbl, ip, t) == [tbl EXCEPT ![ip] = Append(@, t)]

\* the two rejecting branches return before ip_requests.append(now)
after_rejection(tbl, ip, t) == tbl

\* what is_allowed does to the limiter
is_allowed_effect(ip, t) ==
    LET tbl == touch(after_cleanup(t), ip)
    IN  /\ last_cleanup' = IF cleanup_due(t) THEN t ELSE last_cleanup
        /\ IF limit_hit(ip, t) # Null
           THEN /\ requests_by_ip' = after_rejection(tbl, ip, t)
                /\ UNCHANGED allowed_log
           ELSE /\ requests_by_ip' = [tbl EXCEPT ![ip] = record(tbl[ip], t)]
                /\ allowed_log' = [allowed_log EXCEPT ![ip] = Append(@, t)]

\* RateLimiter.is_allowed(client_ip), run by one caller at a time
is_allowed(ip) ==
    /\ is_allowed_effect(ip, now)
    /\ last' = is_allowed_result(ip, now)
    /\ UNCHANGED <<jobVars, now, threads, failed_attempts, auth_config, ticks,
                   failure_log, streak>>

NextLimiter ==
    \/ \E d \in LimiterSteps : Tick(d)
    \/ \E ip \in ClientIPs : is_allowed(ip)

InitLimiter ==
    backend = "sqlite" /\ CELERY_AVAILABLE = FALSE /\ requested = FALSE /\ use_celery = FALSE /\ Init

SpecLimiter == InitLimiter /\ [][NextLimiter]_vars

----------------------------------------------------------------------------
(* RateLimiter.is_allowed entered by several request threads.  The method  *)
(* takes no lock: a thread can be descheduled between the two limit checks *)
(* and ip_requests.append(now).                                            *)

\* the history of allowed requests, kept in order of request time
log_insert(log, t) ==
    LET n == Cardinality({i \in 1..Len(log) : log[i] <= t})
    IN  SubSeq(log, 1, n) \o <<t>> \o SubSeq(log, n + 1, Len(log))

\* lines 51-85: read the clock, clean up, count, check both limits
is_allowed_check(th, ip) ==
    LET t == now
        cleaned == after_cleanup(t)
        tbl == touch(cleaned, ip)
        q == tbl[ip]
        dropped == DOMAIN requests_by_ip \ DOMAIN cleaned
        \* a thread past the checks keeps its reference to a deque that the
        \* cleanup has just deleted from the table
        orphaned == [o \in ThreadIds |->
                        IF threads[o].pc = "record" /\ threads[o].ip \in dropped
                        THEN [threads[o] EXCEPT !.orphan = TRUE] ELSE threads[o]]
    IN  /\ threads[th].pc = "idle"
        /\ last_cleanup' = IF cleanup_due(t) THEN t ELSE last_cleanup
        /\ requests_by_ip' = tbl
        /\ IF minute_count(q, t) >= requests_per_minute
           THEN threads' = orphaned
           ELSE IF hour_count(q, t) >= requests_per_hour
           THEN threads' = orphaned
           ELSE threads' = [orphaned EXCEPT ![th] =
                               [pc |-> "record", ip |-> ip, now |-> t, orphan |-> FALSE]]
        /\ UNCHANGED <<jobVars, now, failed_attempts, auth_config, ticks,
                       allowed_log, failure_log, streak, last>>

\* lines 88-97: append the timestamp, popleft, return True
is_allowed_record(th) ==
    LET ip == threads[th].ip
        t == threads[th].now
    IN  /\ threads[th].pc = "record"
        /\ requests_by_ip' =
              IF threads[th].orphan THEN requests_by_ip
              ELSE [requests_by_ip EXCEPT ![ip] = record(@, t)]
        /\ allowed_log' = [allowed_log EXCEPT ![ip] = log_insert(@, t)]
        /\ threads' = [threads EXCEPT ![th] = IdleThread]
        /\ UNCHANGED <<jobVars, now, last_cleanup, failed_attempts, auth_config,
                       ticks, failure_log, streak, last>>

NextLimiterThreads ==
    \/ \E d \in LimiterSteps : Tick(d)
    \/ \E th \in ThreadIds, ip \in ClientIPs : is_allowed_check(th, ip)
    \/ \E th \in ThreadIds : is_allowed_record(th)

SpecLimiterThreads == InitLimiter /\ [][NextLimiterThreads]_vars

----------------------------------------------------------------------------
(* APIKeyValidator (security.py)                                           *)

\* [t for t in attempts if now - t < self.lockout_duration]
recent_attempts(attempts, t) ==
    SelectSeq(attempts, LAMBDA a : t - a < lockout_duration)

\* self.failed_attempts.get(ip, [])
get_attempts(tbl, ip) == IF ip \in DOMAIN tbl THEN tbl[ip] ELSE <<>>

\* self.failed_attempts[ip] = value
set_attempts(tbl, ip, value) ==
    [i \in DOMAIN tbl \cup {ip} |-> IF i = ip THEN value ELSE tbl[i]]

\* a lockout that needs more than max_attempts recent failures
is_ip_locked_out_late(attempts, t) ==
    Len(recent_attempts(attempts, t)) > max_attempts

\* APIKeyValidator._is_ip_locked_out: the value it returns
is_ip_locked_out(attempts, t) ==
    Len(recent_attempts(attempts, t)) >= max_attempts

\* APIKeyValidator._record_failed_attempt on the list _is_ip_locked_out left
record_failed_attempt(attempts, t) ==
    recent_attempts(Append(attempts, t), t)

AuthFailures == {"INVALID_API_KEY", "MISSING_SIGNATURE", "INVALID_SIGNATURE"}

\* the checks with the key compared before the "no key configured" pass
validate_error_key_first(attempts, t, key, sign) ==
    IF is_ip_locked_out(attempts, t) THEN "TOO_MANY_FAILED_ATTEMPTS"
    ELSE IF key # "right" THEN "INVALID_API_KEY"
    ELSE IF ~auth_config.api_key THEN Null
    ELSE IF auth_config.hmac_secret /\ sign = "none" THEN "MISSING_SIGNATURE"
    ELSE IF auth_config.hmac_secret /\ sign # "valid" THEN "INVALID_SIGNATURE"
    ELSE Null

\* the error validate_request returns (Null: authenticated)
validate_error(attempts, t, key, sign) ==
    IF is_ip_locked_out(attempts, t) THEN "TOO_MANY_FAILED_ATTEMPTS"
    ELSE IF ~auth_config.api_key THEN Null
    ELSE IF key # "right" THEN "INVALID_API_KEY"
    ELSE IF auth_config.hmac_secret /\ sign = "none" THEN "MISSING_SIGNATURE"
    ELSE IF auth_config.hmac_secret /\ sign # "valid" THEN "INVALID_SIGNATURE"
    ELSE Null

\* a validator that counts the request it rejects for a lockout as a failure
after_lockout_recorded(recent, t) == record_failed_attempt(recent, t)

\* the lockout branch returns without calling _record_failed_attempt
after_lockout(recent, t) == recent

\* what validate_request does to the validator
validate_effect(ip, t, key, sign) ==
    LET attempts == get_attempts(failed_attempts, ip)
        recent == recent_attempts(attempts, t)
        err == validate_error(attempts, t, key, sign)
    IN  /\ failed_attempts' =
              set_attempts(failed_attempts, ip,
                           IF err \in AuthFailures THEN record_failed_attempt(recent, t)
                           ELSE IF err = "TOO_MANY_FAILED_ATTEMPTS" THEN after_lockout(recent, t)
                           ELSE recent)
        /\ failure_log' =
              IF err \in AuthFailures
              THEN [failure_log EXCEPT ![ip] = Append(@, t)] ELSE failure_log
        /\ streak' =
              IF err \in AuthFailures
              THEN [streak EXCEPT ![ip] = IF @ < max_attempts THEN @ + 1 ELSE @]
              ELSE IF err = Null THEN [streak EXCEPT ![ip] = 0]
              ELSE streak

\* what validate_request returns
validate_result(ip, t, key, sign) ==
    LET err == validate_error(get_attempts(failed_attempts, ip), t, key, sign)
    IN  [NoCall EXCEPT !.op = "validate_request", !.ip = ip, !.key = key,
                       !.ok = (err = Null), !.error = err, !.at = t]

\* APIKeyValidator.validate_request for a request of client ip carrying
\* header X-VR-APIKEY (right: equal to the configured key; wrong: any other
\* value or no header) and X-VR-SIGN (valid, invalid, none)
validate_request(ip, key, sign) ==
    /\ validate_effect(ip, now, key, sign)
    /\ last' = validate_result(ip, now, key, sign)
    /\ UNCHANGED <<jobVars, now, requests_by_ip, last_cleanup, threads, auth_config,
                   ticks, allowed_log>>

NextAuth ==
    \/ \E d \in AuthSteps : Tick(d)
    \/ \E ip \in ClientIPs, key \in {"right", "wrong"},
          sign \in {"valid", "invalid", "none"} : validate_request(ip, key, sign)

\* a validator constructed with or without key and secret
InitAuth ==
    /\ backend = "sqlite" /\ CELERY_AVAILABLE = FALSE /\ requested = FALSE /\ use_celery = FALSE /\ InitJobs
    /\ now = 0
    /\ requests_by_ip = EmptyTable
    /\ last_cleanup = 0
    /\ threads = [t \in ThreadIds |-> IdleThread]
    /\ failed_attempts = EmptyTable
    /\ auth_config \in [api_key : BOOLEAN, hmac_secret : BOOLEAN]
    /\ ticks = 0
    /\ allowed_log = [ip \in ClientIPs |-> <<>>]
    /\ failure_log = [ip \in ClientIPs |-> <<>>]
    /\ streak = [ip \in ClientIPs |-> 0]
    /\ last = NoCall

SpecAuth == InitAuth /\ [][NextAuth]_vars

----------------------------------------------------------------------------
(* SecurityMiddleware.process_request (security.py)                        *)

\* a pipeline that authenticates before it rate-limits
stopped_at_auth_first(preflight, limited, err) ==
    IF preflight THEN "cors"
    ELSE IF err # Null THEN "auth"
    ELSE IF limited THEN "rate_limit"
    ELSE "passed"

\* the check at which process_request returns
stopped_at(preflight, limited, err) ==
    IF preflight THEN "cors"
    ELSE IF limited THEN "rate_limit"
    ELSE IF err # Null THEN "auth"
    ELSE "passed"

\* the components process_request has called when it returns at a stage
limiter_called(stage) == stage # "cors"
validator_called(stage) == stage \in {"auth", "passed"}

\* SecurityMiddleware.process_request for a request of client ip; preflight:
\* the method is OPTIONS, which CORSHandler.handle_preflight answers itself
process_request(ip, preflight, key, sign) ==
    LET t == now
        hit == limit_hit(ip, t)
        err == validate_error(get_attempts(failed_attempts, ip), t, key, sign)
        stage == stopped_at(preflight, hit # Null, err)
    IN  /\ IF limiter_called(stage) THEN is_allowed_effect(ip, t)
           ELSE UNCHANGED <<requests_by_ip, last_cleanup, allowed_log>>
        /\ IF validator_called(stage) THEN validate_effect(ip, t, key, sign)
           ELSE UNCHANGED <<failed_attempts, failure_log, streak>>
        /\ last' = [NoCall EXCEPT
                      !.op = "process_request", !.ip = ip, !.key = key, !.at = t,
                      !.stage = stage,
                      !.ok = (stage = "passed"),
                      !.error = IF stage = "rate_limit" THEN "RATE_LIMIT_EXCEEDED"
                                ELSE IF stage = "auth" THEN err ELSE Null,
                      !.limit_type = IF stage = "rate_limit" THEN hit ELSE Null]
        /\ UNCHANGED <<jobVars, now, threads, auth_config, ticks>>

NextMiddleware ==
    \/ \E d \in MiddlewareSteps : Tick(d)
    \/ \E ip \in MiddlewareIPs, preflight \in BOOLEAN, key \in {"right", "wrong"},
          sign \in {"valid", "invalid", "none"} : process_request(ip, preflight, key, sign)

SpecMiddleware == InitAuth /\ [][NextMiddleware]_vars

----------------------------------------------------------------------------
(* Job lifecycle properties *)

ForwardStep(old, new) ==
    <<old, new>> \in {<<"pending", "processing">>,
                     <<"processing", "succeeded">>,
                     <<"processing", "failed">>}

\* C1: every status change of a job row is pending->processing,
\* processing->succeeded or processing->failed, in local and distributed
\* mode and across task retries.
C1_StatusMovesForward ==
    [][\A j \in JobIds :
          (jobs[j].exists /\ jobs'[j].exists /\ jobs'[j].status # jobs[j].status)
              => ForwardStep(jobs[j].status, jobs'[j].status)]_vars

\* C2: once a job is succeeded or failed, no step other than its deletion
\* changes any field of its row.
C2_TerminalJobFrozen ==
    [][\A j \in JobIds :
          (jobs[j].exists /\ jobs[j].status \in Terminal /\ jobs'[j].exists)
              => jobs'[j] = jobs[j]]_vars

\* C3: every task that is queued (local queue or broker), and every task a
\* worker has just taken and is about to process, names a job whose row exists.
C3_TaskHasJobRow ==
    /\ \A i \in 1..Len(job_queue) : jobs[job_queue[i].job].exists
    /\ worker.pc = "got" => jobs[worker.item.job].exists
    /\ \A j \in JobIds :
          (ctask[j].st = "queued" \/ Running(j, "start")) => jobs[j].exists

\* C4: a job's audio and caption references are non-null only if its status
\* is succeeded.
C4_RefsOnlyWhenSucceeded ==
    \A j \in JobIds :
        (jobs[j].exists /\ jobs[j].status # "succeeded")
            => (jobs[j].audio_url = Null /\ jobs[j].caption_path = Null)

\* C5 (its state part): whenever a registration job has status succeeded, the
\* speaker's metadata holds the location of the feature blob and the
\* speaker-feature store holds that blob.
C5_SucceededRegistrationHasFeatures ==
    \A j \in JobIds :
        (jobs[j].exists /\ jobs[j].type = "register_speaker" /\ jobs[j].status = "succeeded")
            => /\ speakers[jobs[j].speaker].feature_path # Null
               /\ jobs[j].speaker \in featureStore

\* C6 (its "stays there" part): a synthesis job submitted when all its
\* speakers had extracted features and whose engine and storage calls did
\* not fail, once succeeded, keeps status succeeded and its two references
\* while its row exists.
C6_SynthesisStaysSucceeded ==
    [][\A j \in JobIds :
          (/\ jobs[j].exists /\ jobs[j].type = "synthesize"
           /\ jobs[j].status = "succeeded"
           /\ j \in ready
           /\ ~faulted[j] /\ ~faulted'[j]
           /\ jobs'[j].exists)
              => /\ jobs'[j].status = "succeeded"
                 /\ jobs'[j].audio_url # Null
                 /\ jobs'[j].caption_path # Null]_vars

\* C7: a synthesis job that references a speaker that is unregistered or has
\* no extracted features never has status succeeded.
C7_MissingSpeakerNeverSucceeds ==
    \A j \in JobIds :
        (jobs[j].exists /\ jobs[j].type = "synthesize" /\ jobs[j].status = "succeeded")
            => \A s \in jobs[j].refs : speakers[s].exists /\ s \in featureStore

----------------------------------------------------------------------------
(* Security layer properties *)

\* number of the timestamps of log less than w seconds old at time t
in_window(log, t, w) == Cardinality({i \in 1..Len(log) : t - log[i] < w})

\* the requests of the latest caller's IP that were allowed before its call
allowed_before_last ==
    LET log == allowed_log[last.ip]
    IN  IF last.ok THEN SubSeq(log, 1, Len(log) - 1) ELSE log

\* C8: a request that arrives when requests_per_minute allowed requests of
\* the same IP are less than 60 seconds old is rejected with
\* RATE_LIMIT_EXCEEDED / per_minute, and whether a request is allowed is
\* decided by the allowed requests of its own IP alone (fewer than
\* requests_per_minute in the last minute and fewer than requests_per_hour
\* in the last hour), whatever other IPs have sent.
C8_PerMinuteLimitPerIP ==
    last.op = "is_allowed" =>
        LET m == in_window(allowed_before_last, last.at, MinuteWindow)
            h == in_window(allowed_before_last, last.at, HourWindow)
        IN  /\ m >= requests_per_minute =>
                  /\ ~last.ok
                  /\ last.error = "RATE_LIMIT_EXCEEDED"
                  /\ last.limit_type = "per_minute"
            /\ last.ok <=> (m < requests_per_minute /\ h < requests_per_hour)

\* one IP is rejected per_minute while another IP, with requests of its own
\* in the same minute, has just been served
C8_Witness ==
    /\ last.op = "is_allowed" /\ ~last.ok /\ last.limit_type = "per_minute"
    /\ in_window(allowed_before_last, last.at, MinuteWindow) = requests_per_minute
    /\ \E other \in ClientIPs \ {last.ip} :
          in_window(allowed_log[other], last.at, MinuteWindow) > 0

\* C9: for every IP and every window of 60 seconds (of 3600 seconds) that
\* ends at an allowed request, the requests the limiter allowed in that
\* window number at most requests_per_minute (requests_per_hour), whatever
\* the interleaving of the calling threads.
C9_LimitHoldsUnderThreads ==
    \A ip \in ClientIPs : \A i \in 1..Len(allowed_log[ip]) :
        LET log == allowed_log[ip]
            within(w) == Cardinality({k \in 1..Len(log) :
                                         log[k] <= log[i] /\ log[i] - log[k] < w})
        IN  /\ within(MinuteWindow) <= requests_per_minute
            /\ within(HourWindow) <= requests_per_hour

\* the failed attempts of the latest caller's IP recorded before its call
failures_before_last ==
    LET log == failure_log[last.ip]
    IN  IF last.error \in AuthFailures THEN SubSeq(log, 1, Len(log) - 1) ELSE log

C11_LockoutNeedsConsecutiveFailures ==
    (last.op = "validate_request" /\ last.error = "TOO_MANY_FAILED_ATTEMPTS")
        => streak[last.ip] >= max_attempts

\* C12: when no API key is configured, every validate_request call is
\* accepted, whatever calls came before it, no failed attempt is recorded
\* and no IP is locked out.
C12_NoKeyAcceptsAll ==
    ~auth_config.api_key =>
        /\ last.op = "validate_request" => (last.ok /\ last.error = Null)
        /\ \A ip \in ClientIPs :
              /\ failure_log[ip] = <<>>
              /\ get_attempts(failed_attempts, ip) = <<>>
              /\ ~is_ip_locked_out(get_attempts(failed_attempts, ip), now)

\* without a key configured (a secret may be), after both IPs have sent
\* requests, a later request that carries some key is accepted
C12_Witness ==
    /\ ~auth_config.api_key /\ auth_config.hmac_secret
    /\ DOMAIN failed_attempts = ClientIPs
    /\ last.op = "validate_request" /\ last.key = "wrong" /\ last.ok
    /\ last.at > 0

\* what process_request returned agrees with the stage it stopped at
stage_result ==
    last.op = "process_request" =>
        /\ last.stage = "cors" => (~last.ok /\ last.error = Null)
        /\ last.stage = "rate_limit" => (~last.ok /\ last.error = "RATE_LIMIT_EXCEEDED")
        /\ last.stage = "auth" =>
              (~last.ok /\ last.error \in AuthFailures \cup {"TOO_MANY_FAILED_ATTEMPTS"})
        /\ last.stage = "passed" => (last.ok /\ last.error = Null)

\* C13: process_request handles a preflight first, then the rate limit,
\* then authentication, and returns at the first that fails.  In every
\* request step (a step that leaves the clock alone): a request that is no
\* preflight and finds requests_per_minute allowed requests of its IP inside
\* the last minute stops at the rate limiter, whatever key it carries; a
\* step that answers a preflight changes neither the limiter's history nor
\* the failed attempts; and a step that the rate limiter rejects leaves the
\* failed attempts (their table included) as they were.
C13_MiddlewareOrder ==
    [][now' = now =>
          /\ stage_result'
          /\ (/\ last'.stage # "cors"
              /\ in_window(allowed_log[last'.ip], now, MinuteWindow) >= requests_per_minute)
                => last'.stage = "rate_limit"
          /\ last'.stage = "cors" =>
                UNCHANGED <<requests_by_ip, last_cleanup, allowed_log,
                            failed_attempts, failure_log, streak>>
          /\ last'.stage = "rate_limit" =>
                UNCHANGED <<failed_attempts, failure_log, streak>>]_vars

\* a request with a wrong key from an IP whose earlier requests all
\* authenticated is stopped by the rate limiter and not recorded as a
\* failed attempt
C13_Witness ==
    /\ last.op = "process_request" /\ last.stage = "rate_limit"
    /\ auth_config.api_key /\ last.key = "wrong"
    /\ failure_log[last.ip] = <<>>
    /\ Len(allowed_log[last.ip]) >= requests_per_minute

\* the statuses of the rejections: rate limit, authentication, validation,
\* too-short reference audio
Rejections == {429, 401, 400, 422}

C15_WorkerSurvivesErrors == worker.pc # "dead"

\* C16: a job that exists and has not succeeded has no usage record, and no
\* job ever has more than one (the record is inserted after the job reached
\* succeeded, not at submission, and not again by a retry).
C16_UsageOnlyOnceAfterSuccess ==
    \A j \in JobIds :
        /\ usage[j] <= 1
        /\ (jobs[j].exists /\ jobs[j].status # "succeeded") => usage[j] = 0

----------------------------------------------------------------------------
(* Local mode alone: the handlers and the _worker_loop thread of a server  *)
(* constructed without Celery.                                             *)

InitLocal == use_celery = FALSE /\ Init

NextLocal ==
    \/ do_POST_speakers
    \/ do_POST_synthesize
    \/ \E j \in JobIds : do_DELETE(j)
    \/ worker_get
    \/ worker_loop_sqlite
    \/ worker_loop_postgres
    \/ worker_record_usage

SpecLocal == InitLocal /\ [][NextLocal]_vars

\* the jobs waiting on the local queue
queued_jobs == {job_queue[k].job : k \in DOMAIN job_queue}

\* C17: in local mode the one worker holds at most one job, which is no
\* longer on the queue, and a job is terminal only when every job enqueued
\* before it (job ids are given in enqueue order) has left the queue and the
\* worker: jobs are finished one at a time in the order they were enqueued.
C17_LocalWorkerFifo ==
    ~use_celery =>
        /\ worker.pc # "idle" => worker.item.job \notin queued_jobs
        /\ \A k, l \in DOMAIN job_queue : k < l => job_queue[k].job < job_queue[l].job
        /\ \A j \in JobIds :
               (jobs[j].exists /\ jobs[j].status \in Terminal) =>
                   \A i \in JobIds :
                       i < j => /\ i \notin queued_jobs
                                /\ ~(worker.pc # "idle" /\ worker.item.job = i)

\* two jobs were enqueued and both were finished by the local worker
C17_Witness ==
    /\ ~use_celery
    /\ \A j \in JobIds : jobs[j].exists /\ jobs[j].status = "succeeded"
    /\ worker = IdleWorker

\* C18: the dispatch mode is decided by __init__ (distributed iff Celery was
\* requested and the library is importable) and never changes.  In
\* distributed mode there is no worker thread and the local queue stays
\* empty; in local mode there is a worker thread and no task message is ever
\* sent to the broker.  An accepted request is dispatched on one path only.
C18_OneDispatchPath ==
    /\ [](/\ use_celery = (requested /\ CELERY_AVAILABLE)
          /\ use_celery => (worker = NoWorker /\ job_queue = <<>>)
          /\ ~use_celery => (worker.pc # "none" /\ \A j \in JobIds : ctask[j] = NoTask))
    /\ [][/\ use_celery' = use_celery
          /\ next_job' # next_job =>
                IF use_celery
                THEN ctask'[next_job].st = "queued" /\ job_queue' = job_queue
                ELSE /\ Len(job_queue') = Len(job_queue) + 1
                     /\ job_queue'[Len(job_queue')].job = next_job
                     /\ ctask' = ctask]_vars

\* in distributed mode every request was accepted and sent to the broker
C18_Witness ==
    /\ use_celery
    /\ next_job > MaxJobs
    /\ \A j \in JobIds : ctask[j].st # "none"

\* C19: the processing of a job is started at most once in local mode, and
\* at most once plus the executor's retry limit in distributed mode, whatever
\* the outcome of each attempt.
C19_BoundedExecutions ==
    \A j \in JobIds :
        /\ executions[j] <= MaxRetries + 1
        /\ ~use_celery => executions[j] <= 1
        /\ ctask[j].retries <= MaxRetries

\* a task failed on every attempt the executor gave it and is not queued again
C19_Witness ==
    \E j \in JobIds :
        /\ use_celery
        /\ executions[j] = MaxRetries + 1
        /\ ctask[j] = DoneTask
        /\ jobs[j].exists /\ jobs[j].status = "failed"
        /\ ~faulted[j]

\* C20: when a running task exceeds its soft time limit, its job row is left
\* failed with the error "timeout", which no other failure writes, and the
\* task is finished without being queued again.
C20_TimeoutIsMarked ==
    [][\A j \in JobIds :
          (task_timeout(j) /\ jobs[j].exists) =>
              /\ jobs'[j].status = "failed"
              /\ jobs'[j].error = "timeout"
              /\ ctask'[j] = DoneTask]_vars

\* C21: a DELETE of an existing, succeeded job whose task is not queued or
\* running removes the job row and leaves no audio or caption blob of the
\* job in storage.
C21_DeleteRemovesRowAndBlobs ==
    [][\A j \in JobIds :
          (/\ do_DELETE(j)
           /\ jobs[j].status = "succeeded"
           /\ ctask[j].st \notin {"queued", "running"}) =>
              /\ ~jobs'[j].exists
              /\ blobs'[j] = {}]_vars

\* C22: on the client-server backend no job deletion runs into the foreign
\* key of the usage table: every usage record names an existing job row and
\* the retention sweep never fails with a foreign-key violation.
C22_SweepKeepsReferentialIntegrity ==
    backend = "postgres" =>
        /\ sweep # "ForeignKeyViolation"
        /\ \A j \in JobIds : usage[j] > 0 => jobs[j].exists

\* the rows a step removes
deleted_rows == {j \in JobIds : jobs[j].exists /\ ~jobs'[j].exists}

\* C23: the retention sweep deletes a job row only if the job is succeeded
\* and older than the configured age.
C23_SweepDeletesOnlyOldSucceeded ==
    [][cleanup_old_files =>
          \A j \in deleted_rows : jobs[j].status = "succeeded" /\ j \in aged]_vars

\* C24: after a run of the cleanup that deleted a job row, no audio or
\* caption blob of that job is left in storage.
C24_SweepDeletesBlobsOfDeletedRows ==
    [][cleanup_old_files => \A j \in deleted_rows : blobs'[j] = {}]_vars

----------------------------------------------------------------------------
(* S3StorageManager (s3_storage.py): one manager, its bucket and its local *)
(* directory.                                                              *)

\* keys as the tasks build them ("synthesis/<job>/audio.<fmt>") and a key
\* without a directory part
Keys ==
    {[parts |-> <<"synthesis", "job", "audio.wav">>, sep |-> "/"],
     [parts |-> <<"captions.vtt">>, sep |-> "/"]}

\* file contents
Contents == {"bytes1", "bytes2"}

\* key.replace("/", "_")
flatten(key) == IF Len(key.parts) > 1 THEN [key EXCEPT !.sep = "_"] ELSE key

LocalNames == {flatten(k) : k \in Keys}

\* what the constructor's head_bucket call can end with
ConstructionOutcomes == {"ok", "NoCredentialsError", "ClientError", "EndpointConnectionError"}

\* what s3_client.upload_file can end with
UploadOutcomes == {"ok", "ClientError", "S3UploadFailedError"}

\* what s3_client.delete_object can end with
DeleteOutcomes == {"ok", "ClientError"}

\* f"s3://{self.bucket_name}/{key}"
s3_url(key) == [scheme |-> "s3", netloc |-> "bucket", path |-> key]

\* f"file://{target_path}", target_path = local_storage_path / local_key
file_url(name) == [scheme |-> "file", netloc |-> "", path |-> name]

\* parse_storage_url: ("s3", path without the leading "/") or ("local", path.name)
parse_storage_url(url) ==
    IF url.scheme = "s3" THEN [type |-> "s3", key |-> url.path]
    ELSE [type |-> "local", key |-> url.path]

NoKey == [parts |-> <<>>, sep |-> "/"]

NoUrl == [scheme |-> "none", netloc |-> "", path |-> NoKey]

NoStorageCall == [op |-> "none", key |-> NoKey, content |-> Null, url |-> NoUrl, error |-> Null]

\* S3StorageManager.__init__: s3_available after _test_s3_connection; only
\* NoCredentialsError and ClientError are caught
construct(outcome, use_local_fallback) ==
    IF outcome \in {"ok", "NoCredentialsError", "ClientError"}
    THEN [constructed |-> TRUE,
          s3_available |-> (outcome = "ok"),
          use_local_fallback |-> use_local_fallback,
          s3 |-> [k \in Keys |-> Null],
          local |-> [n \in LocalNames |-> Null],
          last |-> NoStorageCall]
    ELSE NoStorage

\* _upload_to_local: copy the file under the flattened key
upload_to_local(st, key, content) ==
    [st EXCEPT !.local[flatten(key)] = content,
               !.last = [op |-> "upload", key |-> key, content |-> content,
                         url |-> file_url(flatten(key)), error |-> Null]]

upload_raises(st, key, content, error) ==
    [st EXCEPT !.last = [op |-> "upload", key |-> key, content |-> content,
                         url |-> NoUrl, error |-> error]]

\* _upload_to_s3: "except ClientError"
falls_back(outcome) == outcome = "ClientError"

\* upload_file, with _upload_to_s3
upload_result(st, key, content, outcome) ==
    IF st.s3_available
    THEN IF outcome = "ok"
         THEN [st EXCEPT !.s3[key] = content,
                         !.last = [op |-> "upload", key |-> key, content |-> content,
                                   url |-> s3_url(key), error |-> Null]]
         ELSE IF falls_back(outcome) /\ st.use_local_fallback
              THEN upload_to_local(st, key, content)
              ELSE upload_raises(st, key, content, outcome)
    ELSE IF st.use_local_fallback
         THEN upload_to_local(st, key, content)
         ELSE upload_raises(st, key, content, "RuntimeError")

\* delete_file(key): _delete_from_s3 or _delete_from_local by s3_available;
\* True unless the backend call raised
delete_result(st, url, outcome) ==
    LET key == parse_storage_url(url).key
    IN  IF st.s3_available
        THEN IF outcome = "ok"
             THEN [st EXCEPT !.s3 = [k \in Keys |-> IF k = key THEN Null ELSE st.s3[k]],
                             !.last = [op |-> "delete", key |-> key, content |-> Null,
                                       url |-> url, error |-> Null]]
             ELSE [st EXCEPT !.last = [op |-> "delete", key |-> key, content |-> Null,
                                       url |-> url, error |-> outcome]]
        ELSE [st EXCEPT !.local[flatten(key)] = Null,
                        !.last = [op |-> "delete", key |-> key, content |-> Null,
                                  url |-> url, error |-> Null]]

\* _presign_path: generate_presigned_url for an s3:// reference, the
\* reference itself otherwise; generate_presigned_url answers a file:// URL
\* of the local copy when the object store is not available, and an
\* exception gives "<path>?expires=..."
presign_path(st, url) ==
    IF parse_storage_url(url).type = "s3"
    THEN IF st.s3_available
         THEN [scheme |-> "https", netloc |-> "bucket", path |-> parse_storage_url(url).key]
         ELSE IF st.local[flatten(parse_storage_url(url).key)] # Null
              THEN file_url(flatten(parse_storage_url(url).key))
              ELSE [scheme |-> "expires", netloc |-> "", path |-> url.path]
    ELSE url

\* the content a URL serves
serves(st, url) ==
    IF url.scheme = "https" THEN st.s3[url.path]
    ELSE IF url.scheme = "file" THEN st.local[url.path]
    ELSE Null

\* get_storage_manager(): the first call constructs the manager
get_storage_manager ==
    /\ ~storage.constructed
    /\ \E outcome \in ConstructionOutcomes, use_local_fallback \in BOOLEAN :
          storage' = construct(outcome, use_local_fallback)
    /\ UNCHANGED <<securityVars, rejections, wait_result, pool, speaker_metadata, submitted, exchange, synthesis, aged, sweep, executions, response, backend, CELERY_AVAILABLE,
                   requested, use_celery, speakers, jobs, usage, job_queue, worker, ctask,
                   featureStore, blobs, next_speaker, next_job, faulted, ready>>

upload_file ==
    /\ storage.constructed
    /\ \E key \in Keys, content \in Contents, outcome \in UploadOutcomes :
          storage' = upload_result(storage, key, content, outcome)
    /\ UNCHANGED <<securityVars, rejections, wait_result, pool, speaker_metadata, submitted, exchange, synthesis, aged, sweep, executions, response, backend, CELERY_AVAILABLE,
                   requested, use_celery, speakers, jobs, usage, job_queue, worker, ctask,
                   featureStore, blobs, next_speaker, next_job, faulted, ready>>

\* delete_file with the key parse_storage_url takes from the reference an
\* upload returned
delete_file ==
    /\ storage.constructed
    /\ storage.last.op = "upload"
    /\ storage.last.url.scheme # "none"
    /\ \E outcome \in DeleteOutcomes :
          storage' = delete_result(storage, storage.last.url, outcome)
    /\ UNCHANGED <<securityVars, rejections, wait_result, pool, speaker_metadata, submitted, exchange, synthesis, aged, sweep, executions, response, backend, CELERY_AVAILABLE,
                   requested, use_celery, speakers, jobs, usage, job_queue, worker, ctask,
                   featureStore, blobs, next_speaker, next_job, faulted, ready>>

NextStorage == get_storage_manager \/ upload_file \/ delete_file

InitStorage ==
    /\ backend = "postgres" /\ CELERY_AVAILABLE = TRUE /\ requested = TRUE
    /\ use_celery = TRUE /\ Init

SpecStorage == InitStorage /\ [][NextStorage]_vars

\* C25: an upload that returns gives a reference to where the file is now
\* stored (the bucket, or the local directory), and with the local fallback
\* enabled no upload ends with an error.
C25_UploadFallsBackToLocal ==
    (storage.constructed /\ storage.last.op = "upload") =>
        /\ storage.last.error # Null => ~storage.use_local_fallback
        /\ storage.last.error = Null =>
              \/ /\ storage.last.url = s3_url(storage.last.key)
                 /\ storage.s3[storage.last.key] = storage.last.content
              \/ /\ storage.last.url = file_url(flatten(storage.last.key))
                 /\ storage.local[flatten(storage.last.key)] = storage.last.content

\* the object a reference names is stored in neither backend
gone(st, url) ==
    IF url.scheme = "s3" THEN st.s3[url.path] = Null
    ELSE st.local[url.path] = Null

\* C26: the presigned reference of an upload serves the uploaded content,
\* and after a delete of the reference that reports success the object is
\* stored in no backend.
C26_RoundTripThenDelete ==
    storage.constructed =>
        /\ (storage.last.op = "upload" /\ storage.last.error = Null) =>
              serves(storage, presign_path(storage, storage.last.url)) = storage.last.content
        /\ (storage.last.op = "delete" /\ storage.last.error = Null) =>
              gone(storage, storage.last.url)

----------------------------------------------------------------------------
(* The speech engines: FishSpeechEngine.synthesize_speech                  *)
(* (fish_speech_integration.py) and                                        *)
(* OptimizedFishSpeechEngine.synthesize_speech_optimized                   *)
(* (fish_speech_optimized.py)                                              *)

MaxSegments == 3
MaxDuration == 2

Segments == [speaker_id : {"spk1", "spk2"}, text : {"t1", "t2"}]

Scripts == UNION {[1..n -> Segments] : n \in 1..MaxSegments}

EngineKinds == {"FishSpeechEngine", "OptimizedFishSpeechEngine"}

PendingFuture == [state |-> "pending", duration |-> 0]

\* what the generation and decoding of one segment can give: audio of some
\* length (0: nothing was generated) or an exception
SegmentOutcomes ==
    [state : {"done"}, duration : 0..MaxDuration] \cup {[state |-> "raised", duration |-> 0]}

\* the (audio, duration, speaker_id, text) tuple appended for segment i; an
\* exception is replaced by (np.array([]), 0.0, ...)
segment_result(script, futures, i) ==
    [duration |-> IF futures[i].state = "raised" THEN 0 ELSE futures[i].duration,
     speaker |-> script[i].speaker_id, text |-> script[i].text]

\* "Combine results": the loop over the results with its current_time
RECURSIVE combine(_, _, _, _)
combine(script, futures, i, current_time) ==
    IF i > Len(script) THEN <<>>
    ELSE LET r == segment_result(script, futures, i) IN
         IF r.duration > 0
         THEN <<[start |-> current_time, end |-> current_time + r.duration,
                 speaker |-> r.speaker, text |-> r.text]>>
              \o combine(script, futures, i + 1, current_time + r.duration)
         ELSE combine(script, futures, i + 1, current_time)

synthesisOthers ==
    <<securityVars, rejections, wait_result, pool, speaker_metadata, submitted, exchange, storage, aged, sweep, executions, response, backend, CELERY_AVAILABLE,
      requested, use_celery, speakers, jobs, usage, job_queue, worker, ctask,
      featureStore, blobs, next_speaker, next_job, faulted, ready>>

\* the call: the parallel path is taken by the optimized engine for
\* use_parallel and more than one segment; it submits one future per segment
synthesize_speech ==
    /\ synthesis.pc = "idle"
    /\ \E kind \in EngineKinds, script \in Scripts, use_parallel \in BOOLEAN :
          synthesis' = [NoSynthesis EXCEPT
                           !.pc = "running", !.kind = kind, !.script = script,
                           !.parallel = (kind = "OptimizedFishSpeechEngine"
                                         /\ use_parallel /\ Len(script) > 1),
                           !.futures = [i \in 1..Len(script) |-> PendingFuture]]
    /\ UNCHANGED synthesisOthers

\* one segment is generated and decoded: in any order on the thread pool, in
\* script order otherwise.  FishSpeechEngine lets the exception of a segment
\* leave synthesize_speech; the optimized engine logs it and goes on
process_single_segment(i) ==
    /\ synthesis.pc = "running"
    /\ i \in 1..Len(synthesis.script)
    /\ synthesis.futures[i].state = "pending"
    /\ synthesis.parallel \/ \A k \in 1..(i - 1) : synthesis.futures[k].state # "pending"
    /\ \E outcome \in SegmentOutcomes :
          synthesis' = [synthesis EXCEPT
                           !.futures[i] = outcome,
                           !.completed = Append(@, i),
                           !.pc = IF synthesis.kind = "FishSpeechEngine" /\ outcome.state = "raised"
                                  THEN "done" ELSE @,
                           !.result = IF synthesis.kind = "FishSpeechEngine" /\ outcome.state = "raised"
                                      THEN "raised" ELSE @]
    /\ UNCHANGED synthesisOthers

\* all segments are through: the results are combined in the order of the
\* script and (final_audio, caption_data) is returned
return_captions ==
    /\ synthesis.pc = "running"
    /\ \A i \in 1..Len(synthesis.script) : synthesis.futures[i].state # "pending"
    /\ synthesis' = [synthesis EXCEPT
                        !.pc = "done", !.result = "returned",
                        !.caption_data = combine(synthesis.script, synthesis.futures, 1, 0)]
    /\ UNCHANGED synthesisOthers

NextSynthesis ==
    \/ synthesize_speech
    \/ \E i \in 1..MaxSegments : process_single_segment(i)
    \/ return_captions

SpecSynthesis == InitStorage /\ [][NextSynthesis]_vars

\* C27: the captions of a synthesis that returned start at 0, are contiguous
\* and non-decreasing, and are the segments of the script, all of them and in
\* script order, also when the segments completed out of order.
C27_CaptionsCoverScriptInOrder ==
    (synthesis.pc = "done" /\ synthesis.result = "returned") =>
        LET c == synthesis.caption_data IN
        /\ Len(c) > 0 => c[1].start = 0
        /\ \A i \in 1..Len(c) : c[i].end >= c[i].start
        /\ \A i \in 2..Len(c) : c[i].start = c[i - 1].end
        /\ Len(c) = Len(synthesis.script)
        /\ \A i \in 1..Len(c) :
              /\ c[i].speaker = synthesis.script[i].speaker_id
              /\ c[i].text = synthesis.script[i].text

----------------------------------------------------------------------------
(* Request handling: Handler.do_GET and Handler.do_POST of server.py and   *)
(* server_postgres.py under http.server                                    *)

Routes ==
    {"/health", "/v1/jobs/<id>", "/v1/speakers/<id>", "/v1/speakers?page=", "/v1/usage",
     "/v1/usage?year=", "/other"}

\* the page, speaker id, year or duration of the request as int() and
\* float() see it
Params == {"numeric", "non-numeric"}

PersistenceOutcomes == {"ok", "error"}

Sent(code) == [responses |-> <<code>>, raised |-> FALSE]

\* an exception leaves do_GET or do_POST: socketserver's handle_error prints
\* the traceback and the connection is closed, nothing was written
Raised == [responses |-> <<>>, raised |-> TRUE]

lookup(persistence, found) ==
    IF persistence = "error" THEN Raised
    ELSE IF found THEN Sent(200) ELSE Sent(404)

do_GET_result(b, route, param, persistence, found) ==
    IF route = "/health" THEN Sent(200)
    ELSE IF route = "/v1/jobs/<id>" THEN lookup(persistence, found)
    ELSE IF route = "/v1/speakers/<id>"
         THEN IF b = "postgres" /\ param = "non-numeric" THEN Raised
              ELSE lookup(persistence, found)
    ELSE IF route = "/v1/speakers?page=" /\ b = "sqlite"
         THEN IF param = "non-numeric" \/ persistence = "error" THEN Raised ELSE Sent(200)
    ELSE IF route = "/v1/usage" /\ b = "postgres"
         THEN IF persistence = "error" THEN Raised ELSE Sent(200)
    ELSE Sent(404)

\* POST /v1/speakers with a JSON body that is valid but for its duration
do_POST_result(route, param, persistence) ==
    IF route = "/v1/speakers"
    THEN IF param = "non-numeric" \/ persistence = "error" THEN Raised ELSE Sent(202)
    ELSE Sent(404)

check_security(verdict, result) ==
    IF verdict = "ok" THEN result
    ELSE IF verdict = "RATE_LIMIT_EXCEEDED" THEN Sent(429) ELSE Sent(401)

exchangeOthers ==
    <<securityVars, rejections, wait_result, pool, speaker_metadata, submitted, synthesis, storage, aged, sweep, executions, response, backend, CELERY_AVAILABLE,
      requested, use_celery, speakers, jobs, usage, job_queue, worker, ctask,
      featureStore, blobs, next_speaker, next_job, faulted, ready>>

do_GET ==
    /\ \E route \in Routes, param \in Params, persistence \in PersistenceOutcomes,
          verdict \in SecurityVerdicts, found \in BOOLEAN :
          LET result == check_security(verdict, do_GET_result(backend, route, param, persistence, found)) IN
          exchange' = [pc |-> "closed", method |-> "GET", route |-> route, param |-> param,
                       persistence |-> persistence, security |-> verdict, found |-> found,
                       responses |-> result.responses, raised |-> result.raised]
    /\ UNCHANGED exchangeOthers

do_POST ==
    /\ \E route \in {"/v1/speakers", "/other"}, param \in Params,
          persistence \in PersistenceOutcomes, verdict \in SecurityVerdicts :
          LET result == check_security(verdict, do_POST_result(route, param, persistence)) IN
          exchange' = [pc |-> "closed", method |-> "POST", route |-> route, param |-> param,
                       persistence |-> persistence, security |-> verdict, found |-> FALSE,
                       responses |-> result.responses, raised |-> result.raised]
    /\ UNCHANGED exchangeOthers

NextExchange == do_GET \/ do_POST

InitExchange ==
    /\ CELERY_AVAILABLE = FALSE /\ requested = FALSE /\ use_celery = FALSE
    /\ Init

SpecExchange == InitExchange /\ [][NextExchange]_vars

\* C28: every handled request got exactly one response, and a request whose
\* handling raised got the generic 500.
C28_ExceptionGetsOne500 ==
    exchange.pc = "closed" =>
        /\ Len(exchange.responses) = 1
        /\ exchange.raised => exchange.responses = <<500>>

----------------------------------------------------------------------------
(* The local worker against the task executor *)

\* C29: the local-mode worker takes a job through the statuses of the task
\* executor: a job leaves "pending" for "processing" only, and reaches
\* "succeeded" or "failed" from "processing".
C29_LocalWorkerFollowsTaskStatuses ==
    [][\A j \in JobIds :
          (jobs[j].exists /\ jobs'[j].exists /\ jobs[j].status = "pending"
             /\ jobs'[j].status # "pending") => jobs'[j].status = "processing"]_vars

----------------------------------------------------------------------------
(* InputValidator.validate_synthesis_script (security.py) and its use in   *)
(* POST /v1/synthesize                                                     *)

MaxHead == 2
MaxScriptSegments == 1000
MaxTextLength == 10000

\* JSON values a segment can carry as "text": nothing, null, strings of some
\* length after strip(), with or without a match of the XSS patterns
TextValues ==
    {[type |-> "absent", len |-> 0, xss |-> FALSE],
     [type |-> "NoneType", len |-> 0, xss |-> FALSE],
     [type |-> "str", len |-> 0, xss |-> FALSE],
     [type |-> "str", len |-> 5, xss |-> FALSE],
     [type |-> "str", len |-> 29, xss |-> TRUE],
     [type |-> "str", len |-> MaxTextLength + 1, xss |-> FALSE]}

\* and as "speaker_id": nothing, "" or "spk_1"
SpeakerIdValues ==
    {[type |-> "absent", len |-> 0], [type |-> "str", len |-> 0], [type |-> "str", len |-> 5]}

NoField == [type |-> "absent", len |-> 0, xss |-> FALSE]

\* a segment is an object with these fields, or some other JSON value
SegmentValues ==
    [type : {"dict"}, speaker_id : SpeakerIdValues, text : TextValues]
        \cup {[type |-> "str", speaker_id |-> [type |-> "absent", len |-> 0], text |-> NoField]}

GoodSegment ==
    [type |-> "dict", speaker_id |-> [type |-> "str", len |-> 5],
     text |-> [type |-> "str", len |-> 5, xss |-> FALSE]]

\* the "script" of the payload: null, a string, or a list.  A list is its
\* first segments (head) followed by filler copies of GoodSegment, so that
\* lists around the limit of 1000 segments are among the inputs
ScriptValues ==
    {[type |-> "NoneType", head |-> <<>>, filler |-> 0],
     [type |-> "str", head |-> <<>>, filler |-> 0]}
        \cup [type : {"list"},
              head : UNION {[1..n -> SegmentValues] : n \in 0..MaxHead},
              filler : {0, MaxScriptSegments - MaxHead, MaxScriptSegments - MaxHead + 1}]

len(script) == Len(script.head) + script.filler

\* Python truth of a value: None and empty strings and lists are false
truthy(v) == v.type \notin {"absent", "NoneType"} /\ (v.type = "str" => v.len > 0)

Valid == [ok |-> TRUE, error |-> ""]

Invalid(error) == [ok |-> FALSE, error |-> error]

\* segment.get("text", "")
get_text(segment) ==
    IF segment.text.type = "absent" THEN [type |-> "str", len |-> 0, xss |-> FALSE]
    ELSE segment.text

validate_script_text(text) ==
    IF ~truthy(text) \/ text.type # "str" THEN Invalid("Script text is required")
    ELSE IF text.len < 1 THEN Invalid("Script text cannot be empty")
    ELSE IF text.len > MaxTextLength THEN Invalid("Script text too long")
    ELSE IF text.xss THEN Invalid("Script text contains potentially dangerous content")
    ELSE Valid

\* a validator that does not look at speaker_id
speaker_id_unchecked(segment) == FALSE

\* "if not speaker_id"
missing_speaker_id(segment) == ~truthy(segment.speaker_id)

\* the body of the loop for one segment
validate_segment(segment) ==
    IF segment.type # "dict" THEN Invalid("must be an object")
    ELSE IF missing_speaker_id(segment) THEN Invalid("missing speaker_id")
    ELSE validate_script_text(get_text(segment))

\* the loop: the first invalid segment ends it
RECURSIVE validate_segments(_, _)
validate_segments(head, i) ==
    IF i > Len(head) THEN Valid
    ELSE IF ~validate_segment(head[i]).ok THEN validate_segment(head[i])
    ELSE validate_segments(head, i + 1)

validate_synthesis_script(script) ==
    IF script.type # "list" \/ len(script) = 0 THEN Invalid("Script must be a non-empty list")
    ELSE IF len(script) > MaxScriptSegments THEN Invalid("Script too long")
    ELSE validate_segments(script.head, 1)

\* POST /v1/synthesize with this script, everything else in the request
\* being acceptable; one such request is followed
do_POST_synthesize_script ==
    /\ submitted.pc = "none"
    /\ \E script \in ScriptValues :
          /\ submitted' = [pc |-> "answered", script |-> script,
                           accepted |-> validate_synthesis_script(script).ok,
                           error |-> validate_synthesis_script(script).error]
          /\ synthesize_request("ok", validate_synthesis_script(script).ok)

NextValidation == do_POST_synthesize_script

SpecValidation == InitExchange /\ [][NextValidation]_vars

\* what the validator is to accept: a non-empty list of at most 1000
\* objects, each with a non-empty speaker_id and a valid text
well_formed(script) ==
    /\ script.type = "list"
    /\ len(script) >= 1
    /\ len(script) <= MaxScriptSegments
    /\ \A i \in 1..Len(script.head) :
          /\ script.head[i].type = "dict"
          /\ script.head[i].speaker_id.type = "str" /\ script.head[i].speaker_id.len > 0
          /\ validate_script_text(get_text(script.head[i])).ok

\* C30: validate_synthesis_script accepts exactly the well-formed scripts,
\* and a request with a script that is not well-formed is answered 400 and
\* creates no job, queue item, task, usage row or file.
C30_ScriptAcceptedIffWellFormed ==
    [][(submitted.pc = "none" /\ submitted'.pc = "answered") =>
          /\ submitted'.accepted <=> well_formed(submitted'.script)
          /\ ~well_formed(submitted'.script) =>
                /\ response' = 400
                /\ UNCHANGED <<jobs, job_queue, ctask, usage, blobs, next_job>>]_vars

\* a two-segment script whose first segment is good and whose second lacks
\* its speaker_id was rejected with 400
C30_Witness ==
    /\ submitted.pc = "answered"
    /\ Len(submitted.script.head) = 2 /\ submitted.script.filler = 0
    /\ submitted.script.head[1] = GoodSegment
    /\ submitted.script.head[2].type = "dict" /\ ~truthy(submitted.script.head[2].speaker_id)
    /\ ~submitted.accepted
    /\ response = 400

----------------------------------------------------------------------------
(* The jobs table under update_job *)

\* C31: on the client-server store a job row has a completion timestamp
\* exactly when its status is succeeded.
C31_CompletedAtIffSucceeded ==
    backend = "postgres" =>
        \A j \in JobIds :
            jobs[j].exists => (jobs[j].completed_at # Null <=> jobs[j].status = "succeeded")

----------------------------------------------------------------------------
(* update_speaker_metadata: PostgreSQLDatabase.update_speaker_metadata     *)
(* (db_postgres.py) and the UPDATE speakers SET metadata=? of tasks.py     *)

\* a stored value, or "absent" for a key the map does not have
MetadataValues == {"absent", "v1", "v2"}

MetadataMaps == [MetadataKeys -> MetadataValues]

\* the partial maps passed to the update: "absent" for a key it does not name
PartialMaps == MetadataMaps \ {[k \in MetadataKeys |-> "absent"]}

\* the || of two jsonb objects: the right operand's keys win
jsonb_concat(left, right) ==
    [k \in MetadataKeys |-> IF right[k] # "absent" THEN right[k] ELSE left[k]]

\* the speakers table of the embedded store is (id, name, lang): it has no
\* metadata column, and the UPDATE raises sqlite3.OperationalError
has_metadata_column(b) == b = "postgres"

update_speaker_metadata_result(b, meta, partial) ==
    IF has_metadata_column(b)
    THEN [pc |-> "updated", stored |-> jsonb_concat(meta.stored, partial),
          before |-> meta.stored, partial |-> partial, error |-> "none"]
    ELSE [pc |-> "updated", stored |-> meta.stored,
          before |-> meta.stored, partial |-> partial, error |-> "OperationalError"]

metadataOthers ==
    <<securityVars, rejections, wait_result, pool, submitted, exchange, synthesis, storage, aged, sweep, executions, response,
      backend, CELERY_AVAILABLE, requested, use_celery, speakers, jobs, usage, job_queue, worker,
      ctask, featureStore, blobs, next_speaker, next_job, faulted, ready>>

update_speaker_metadata ==
    /\ \E partial \in PartialMaps :
          speaker_metadata' = update_speaker_metadata_result(backend, speaker_metadata, partial)
    /\ UNCHANGED metadataOthers

NextMetadata == update_speaker_metadata

SpecMetadata == InitExchange /\ [][NextMetadata]_vars

\* C32: on both backends an update leaves the unnamed keys as they were,
\* gives the named keys their new values, and applying it a second time
\* changes nothing.
C32_MetadataIsMerged ==
    speaker_metadata.pc = "updated" =>
        /\ \A k \in MetadataKeys :
              speaker_metadata.stored[k] =
                  IF speaker_metadata.partial[k] # "absent"
                  THEN speaker_metadata.partial[k] ELSE speaker_metadata.before[k]
        /\ update_speaker_metadata_result(backend, speaker_metadata,
                                          speaker_metadata.partial).stored = speaker_metadata.stored

----------------------------------------------------------------------------
(* The cleanup sweep of the rate limiter *)

\* clock advances that put a sweep between requests less than an hour apart
SweepSteps == {301, 3300}

NextSweep ==
    \/ \E d \in SweepSteps : Tick(d)
    \/ \E ip \in ClientIPs : is_allowed(ip)

SpecSweep == InitLimiter /\ [][NextSweep]_vars

\* the timestamps of a deque that the limiter counts for a request at time t
in_trailing_hour(q, t) == SelectSeq(q, LAMBDA r : r > t - HourWindow)

\* the allow/deny decision of is_allowed for ip at time t over a table
decision(tbl, ip, t) ==
    /\ minute_count(touch(tbl, ip)[ip], t) < requests_per_minute
    /\ hour_count(touch(tbl, ip)[ip], t) < requests_per_hour

\* C33: a sweep at time t (a call in which last_cleanup moves) leaves no
\* timestamp at or before t - 3600 and no IP without a timestamp, keeps every
\* timestamp the limiter counts for the trailing hour, and so decides every
\* request at t or later as the unswept table would.
C33_SweepKeepsTrailingHour ==
    [][last_cleanup' # last_cleanup =>
          LET t == now
              swept == cleanup_old_entries(requests_by_ip, t)
          IN  /\ \A ip \in DOMAIN swept :
                    /\ swept[ip] # <<>>
                    /\ \A i \in 1..Len(swept[ip]) : swept[ip][i] > t - HourWindow
              /\ \A ip \in DOMAIN requests_by_ip :
                    in_trailing_hour(requests_by_ip[ip], t) =
                        IF ip \in DOMAIN swept THEN swept[ip] ELSE <<>>
              /\ \A ip \in ClientIPs : \A d \in SweepSteps \cup {0} :
                    decision(swept, ip, t + d) = decision(requests_by_ip, ip, t + d)
              /\ \A ip \in DOMAIN requests_by_ip' :
                    \A i \in 1..Len(requests_by_ip'[ip]) : requests_by_ip'[ip][i] > t - HourWindow]_vars

\* a sweep at the time of the latest call evicted one IP, whose requests
\* were all more than an hour old, and kept an earlier request of the caller
\* that was not
C33_Witness ==
    /\ last.op = "is_allowed" /\ last_cleanup = last.at /\ last.at > HourWindow
    /\ \E other \in ClientIPs \ {last.ip} :
          /\ allowed_log[other] # <<>>
          /\ other \notin DOMAIN requests_by_ip
    /\ Len(requests_by_ip[last.ip]) >= 2
    /\ requests_by_ip[last.ip][1] < last.at

----------------------------------------------------------------------------
(* Dispatch failures and shutdown *)

\* POST /v1/speakers, accepted, in distributed mode while the broker cannot
\* be reached: the rows are committed, then celery_register_speaker.delay(...)
\* raises out of do_POST; no message is sent and nothing is answered
do_POST_speakers_delay_raises ==
    /\ use_celery
    /\ next_job <= MaxJobs
    /\ next_speaker <= MaxSpeakers
    /\ speakers' = [speakers EXCEPT ![next_speaker] = [exists |-> TRUE, feature_path |-> Null]]
    /\ jobs' = [jobs EXCEPT ![next_job] =
                    create_job("register_speaker", Null, Null, Null, next_speaker, {})]
    /\ next_speaker' = next_speaker + 1
    /\ next_job' = next_job + 1
    /\ response' = 0
    /\ UNCHANGED <<securityVars, rejections, wait_result, pool, speaker_metadata, submitted, exchange, synthesis, storage, aged, sweep, executions, backend, CELERY_AVAILABLE, requested, use_celery, usage, job_queue, worker, ctask,
                   featureStore, blobs, faulted, ready>>

\* stop(): the HTTP thread is shut down and joined, then the stop event is
\* set and the worker joined; the loop leaves at its next "while not
\* self._stop_event.is_set()", whatever is still on the queue
stop ==
    /\ worker.pc = "idle"
    /\ worker' = [pc |-> "stopped", item |-> NoItem]
    /\ UNCHANGED <<securityVars, rejections, wait_result, pool, speaker_metadata, submitted, exchange, synthesis, storage, aged, sweep, executions, response, backend, CELERY_AVAILABLE, requested, use_celery, speakers, jobs, usage, job_queue, ctask,
                   featureStore, blobs, next_speaker, next_job, faulted, ready>>

NextDispatch ==
    \/ /\ worker.pc # "stopped"
       /\ \/ do_POST_speakers
          \/ do_POST_synthesize
          \/ do_POST_speakers_delay_raises
    \/ worker_get
    \/ worker_loop_sqlite
    \/ worker_loop_postgres
    \/ worker_record_usage
    \/ \E j \in JobIds : task_begin(j)
    \/ \E j \in JobIds : task_processing(j)
    \/ stop

SpecDispatch == Init /\ [][NextDispatch]_vars

\* C34: every pending job row has its task on the local queue of a running
\* worker, in the broker or with a task executor, or in the hands of the
\* worker.
C34_PendingJobHasTask ==
    \A j \in JobIds :
        (jobs[j].exists /\ jobs[j].status = "pending") =>
            \/ j \in queued_jobs /\ worker.pc \in {"idle", "got", "usage"}
            \/ ctask[j].st \in {"queued", "running"}
            \/ worker.pc = "got" /\ worker.item.job = j

----------------------------------------------------------------------------
(* PostgreSQLDatabase.get_connection (db_postgres.py): one persistence     *)
(* operation per thread, each inside "with self.get_connection()"          *)

\* ThreadedConnectionPool(min_connections, max_connections, dsn)
max_connections == 1

CallOutcomes == {"ok", "raises"}

\* a handler whose except clause is left by a raising rollback without the
\* connection being put back
after_rollback_unprotected(outcome) == IF outcome = "ok" THEN "finally" ELSE "idle"

\* "except: if conn: conn.rollback(); raise" is followed by the finally
\* clause whether or not rollback itself raises
after_rollback(outcome) == "finally"

poolOthers ==
    <<securityVars, rejections, wait_result, speaker_metadata, submitted, exchange, synthesis, storage, aged, sweep, executions,
      response, backend, CELERY_AVAILABLE, requested, use_celery, speakers, jobs, usage, job_queue,
      worker, ctask, featureStore, blobs, next_speaker, next_job, faulted, ready>>

\* conn = self.pool.getconn(): PoolError when every connection is out
getconn(th) ==
    /\ pool.threads[th].pc = "idle"
    /\ pool' = IF pool.used < max_connections
               THEN [pool EXCEPT !.used = @ + 1,
                                 !.threads[th] = [pc |-> "body", conn |-> TRUE, outcome |-> "none"]]
               ELSE [pool EXCEPT !.threads[th] =
                                     [pc |-> "except", conn |-> FALSE, outcome |-> "PoolError"]]
    /\ UNCHANGED poolOthers

\* yield conn: the statements of the operation
body(th) ==
    /\ pool.threads[th].pc = "body"
    /\ \E outcome \in CallOutcomes :
          pool' = [pool EXCEPT !.threads[th].pc = IF outcome = "ok" THEN "commit" ELSE "except",
                               !.threads[th].outcome = IF outcome = "ok" THEN @ ELSE "raised"]
    /\ UNCHANGED poolOthers

\* conn.commit()
commit(th) ==
    /\ pool.threads[th].pc = "commit"
    /\ \E outcome \in CallOutcomes :
          pool' = [pool EXCEPT !.threads[th].pc = IF outcome = "ok" THEN "finally" ELSE "except",
                               !.threads[th].outcome =
                                   IF outcome = "ok" THEN "committed" ELSE "commit raised"]
    /\ UNCHANGED poolOthers

\* except Exception: if conn: conn.rollback(); raise
rollback(th) ==
    /\ pool.threads[th].pc = "except"
    /\ IF pool.threads[th].conn
       THEN \E outcome \in CallOutcomes :
               pool' = [pool EXCEPT !.threads[th].pc = after_rollback(outcome),
                                    !.threads[th].outcome =
                                        IF outcome = "ok" THEN "rolled back" ELSE "rollback raised"]
       ELSE pool' = [pool EXCEPT !.threads[th].pc = "finally"]
    /\ UNCHANGED poolOthers

\* finally: if conn: self.pool.putconn(conn); the operation is over
putconn(th) ==
    /\ pool.threads[th].pc = "finally"
    /\ pool' = [pool EXCEPT !.used = IF pool.threads[th].conn THEN @ - 1 ELSE @,
                            !.threads[th].pc = "idle",
                            !.threads[th].conn = FALSE]
    /\ UNCHANGED poolOthers

NextPool ==
    \/ \E th \in ThreadIds : getconn(th)
    \/ \E th \in ThreadIds : body(th)
    \/ \E th \in ThreadIds : commit(th)
    \/ \E th \in ThreadIds : rollback(th)
    \/ \E th \in ThreadIds : putconn(th)

SpecPool == InitStorage /\ [][NextPool]_vars

\* C35: the connections checked out are those of the threads inside an
\* operation: a thread whose operation is over, committed or rolled back,
\* holds none, and with no operation running the pool is full again.
C35_ConnectionsAreReturned ==
    /\ pool.used = Cardinality({th \in ThreadIds : pool.threads[th].conn})
    /\ \A th \in ThreadIds : pool.threads[th].pc = "idle" => ~pool.threads[th].conn
    /\ pool.used <= max_connections

\* every operation is over and the pool is full, after one operation whose
\* rollback raised and one that found the pool exhausted
C35_Witness ==
    /\ pool.used = 0
    /\ \A th \in ThreadIds : pool.threads[th].pc = "idle"
    /\ \E th \in ThreadIds : pool.threads[th].outcome = "rollback raised"
    /\ \E th \in ThreadIds : pool.threads[th].outcome = "PoolError"

----------------------------------------------------------------------------
(* The registration task and the speaker's metadata *)

\* C36: the registration task writes the feature metadata of a speaker at
\* most once: whenever it writes it, the speaker row has none yet.
C36_MetadataWrittenOnce ==
    [][\A j \in JobIds :
          (register_metadata(j) /\ backend = "postgres" /\ speakers[ctask[j].speaker].exists) =>
              speakers[ctask[j].speaker].feature_path = Null]_vars

----------------------------------------------------------------------------
(* wait_all_jobs (server.py, server_postgres.py) *)

\* the loop finds self.job_queue.empty() before the timeout and returns
wait_all_jobs ==
    /\ ~use_celery
    /\ job_queue = <<>>
    /\ wait_result' = [returned |-> TRUE,
                       unfinished |-> {j \in JobIds : jobs[j].exists /\ jobs[j].status \notin Terminal}]
    /\ UNCHANGED <<securityVars, rejections, pool, speaker_metadata, submitted, exchange, synthesis, storage, aged, sweep, executions, response, backend, CELERY_AVAILABLE, requested, use_celery, speakers, jobs, usage, job_queue, worker, ctask,
                   featureStore, blobs, next_speaker, next_job, faulted, ready>>

NextWait == NextLocal \/ wait_all_jobs

SpecWait == InitLocal /\ [][NextWait]_vars

\* C37: when wait_all_jobs has returned before its timeout, every job that
\* existed then had reached a terminal status.
C37_WaitMeansAllDone ==
    wait_result.returned => wait_result.unfinished = {}

----------------------------------------------------------------------------
(* RateLimiter.is_allowed, with the latest rejected call of each IP remembered   *)

BlockSteps == {30, 31}    \* seconds the clock may advance while an IP is blocked

\* every job variable but rejections
rejectionsOthers ==
    <<backend, CELERY_AVAILABLE, requested, use_celery, speakers, jobs, usage, job_queue, worker, ctask,
      featureStore, blobs, next_speaker, next_job, faulted, ready, executions, aged, sweep,
      storage, synthesis, exchange, submitted, speaker_metadata, pool, wait_result, response>>

\* RateLimiter.is_allowed(client_ip), the time of a rejected call noted
is_allowed_noting(ip) ==
    /\ is_allowed_effect(ip, now)
    /\ last' = is_allowed_result(ip, now)
    /\ rejections' = IF limit_hit(ip, now) # Null
                     THEN [rejections EXCEPT ![ip] = {now}] ELSE rejections
    /\ UNCHANGED <<rejectionsOthers, now, threads, failed_attempts, auth_config, ticks,
                   failure_log, streak>>

NextBlocked ==
    \/ \E d \in BlockSteps : Tick(d)
    \/ \E ip \in ClientIPs : is_allowed_noting(ip)

SpecBlocked == InitLimiter /\ [][NextBlocked]_vars

\* q is what is left of log after dropping some of its oldest entries
is_suffix(q, log) ==
    /\ Len(q) <= Len(log)
    /\ q = SubSeq(log, Len(log) - Len(q) + 1, Len(log))

\* C38: the history of an IP holds allowed requests only (it is the allowed
\* log of the IP without some of its oldest entries, so no rejected call was
\* appended), and the latest call is allowed exactly when fewer than
\* requests_per_minute allowed requests of the IP lie in the last minute and
\* fewer than requests_per_hour in the last hour, however many calls of the
\* IP were rejected in between.
C38_RejectedNotRecorded ==
    /\ \A ip \in DOMAIN requests_by_ip : is_suffix(requests_by_ip[ip], allowed_log[ip])
    /\ last.op = "is_allowed" =>
          (last.ok <=>
              /\ in_window(allowed_before_last, last.at, MinuteWindow) < requests_per_minute
              /\ in_window(allowed_before_last, last.at, HourWindow) < requests_per_hour)

\* an IP that was blocked, and sent a rejected request less than a minute
\* ago, is allowed again
C38_Witness ==
    /\ last.op = "is_allowed" /\ last.ok
    /\ Len(allowed_before_last) >= requests_per_minute
    /\ \E r \in rejections[last.ip] : r > 0 /\ last.at - r < MinuteWindow
    /\ Len(requests_by_ip[last.ip]) = Len(allowed_log[last.ip])

----------------------------------------------------------------------------
(* APIKeyValidator.validate_request, with the requests rejected for a      *)
(* lockout remembered                                                      *)

\* validate_request(handler, body, client_ip), the time of a request
\* rejected as TOO_MANY_FAILED_ATTEMPTS noted
validate_request_noting(ip, key, sign) ==
    /\ validate_effect(ip, now, key, sign)
    /\ last' = validate_result(ip, now, key, sign)
    /\ rejections' =
          IF validate_error(get_attempts(failed_attempts, ip), now, key, sign)
                = "TOO_MANY_FAILED_ATTEMPTS"
          THEN [rejections EXCEPT ![ip] = {now}] ELSE rejections
    /\ UNCHANGED <<rejectionsOthers, now, requests_by_ip, last_cleanup, threads, auth_config,
                   ticks, allowed_log>>

NextLockout ==
    \/ \E d \in AuthSteps : Tick(d)
    \/ \E ip \in ClientIPs, key \in {"right", "wrong"},
          sign \in {"valid", "invalid", "none"} : validate_request_noting(ip, key, sign)

\* a validator constructed with an API key, with or without an HMAC secret
InitLockout == InitAuth /\ auth_config.api_key

SpecLockout == InitLockout /\ [][NextLockout]_vars

\* C39: the attempts kept for an IP are failed authentications only (the
\* failure log of the IP without some of its oldest entries, so no request
\* rejected for a lockout was appended), and the latest request is rejected
\* as TOO_MANY_FAILED_ATTEMPTS exactly when max_attempts failed
\* authentications of its own IP are less than lockout_duration old,
\* whatever requests the IP sent while locked out and whatever other IPs did.
C39_LockoutEnds ==
    /\ \A ip \in DOMAIN failed_attempts : is_suffix(failed_attempts[ip], failure_log[ip])
    /\ last.op = "validate_request" =>
          (last.error = "TOO_MANY_FAILED_ATTEMPTS" <=>
              in_window(failures_before_last, last.at, lockout_duration) >= max_attempts)

\* an IP that was locked out and sent a request during the lockout is served
\* once lockout_duration has passed, while the other IP is locked out
C39_Witness ==
    /\ last.op = "validate_request" /\ last.ok /\ auth_config.api_key
    /\ Len(failure_log[last.ip]) >= max_attempts
    /\ \E r \in rejections[last.ip] : r > failure_log[last.ip][1] /\ last.at - r < lockout_duration
    /\ \E other \in ClientIPs \ {last.ip} :
          is_ip_locked_out(get_attempts(failed_attempts, other), now)

====
